---- MODULE Spec2Model ----
(***************************************************************************)
(* Agent execution contract, crew pipeline, workflow orchestrator and      *)
(* checkpointed batch ingestor of the MediAI agent framework (src/agents). *)
(*                                                                         *)
(* Python values are modelled as follows: a dict is a function whose       *)
(* domain is its set of keys (the empty dict and the empty list are <<>>), *)
(* a str is [str |-> s], None is [none |-> TRUE].  A float written as a    *)
(* literal or obtained by one division of two ints is the fraction         *)
(* <<numerator, denominator>> whose nearest double it is; a float the      *)
(* quality agent computes is the double itself, [m |-> digits, e |-> n].   *)
(* A call that may raise is described by an outcome: Returned(value) or    *)
(* Raised(message).                                                        *)
(***************************************************************************)
EXTENDS Integers, Sequences, FiniteSets, TLC

VARIABLES
    \* ---- one core BaseAgent instance (agents/core/base_agent.py) ----
    agent_kind,          \* which concrete subclass the instance is
    agent_fields,        \* self.name, self.description, self.tools, self.config
    status,              \* self.status
    execution_history,   \* self.execution_history
    pc,                  \* position of the caller / of execute()
    context,             \* the argument of the execute() call in progress
    validation,          \* outcome of validate_inputs in the call in progress
    core_calls,          \* number of _execute invocations in the call in progress
    fault,               \* <<message>> of the fault raised in the call, or <<>>
    result,              \* the AgentResult the call returns
    escaped,             \* TRUE iff a fault propagated out of execute()
    returned,            \* results handed back to the caller since the last reset
    h_reset,             \* status and history length reset() last found, None before
    \* ---- the two DataPipelineCrew objects (agents/crews, agents/examples) ----
    k_pc,                \* position of kickoff(): "ready", a task name or "done"
    k_crew,              \* the crew whose kickoff() is in progress
    k_context,           \* the context passed to kickoff()
    k_results,           \* the local dict results
    k_report,            \* the dict kickoff() returns
    k_invoked,           \* tasks whose agent's execute() was called, in call order
    k_keys,              \* insertion order of the keys of the context dict of the call in progress
    k_kickoffs,          \* number of kickoff() calls made so far
    crew_agent_status,   \* status field of each crew's three agents
    crew_agent_history,  \* execution_history of each crew's three agents
    \* ---- one WorkflowOrchestrator (agents/examples/example_orchestrator.py) ----
    o_pc,                \* position of execute_workflow(): "ready", a crew or "done"
    o_execution_history, \* self.execution_history
    o_ml_output,         \* ml_dev_result.output, handed to the deployment crew
    o_summary,           \* the summary execute_workflow() returns
    o_invoked,           \* crews executed by the call in progress, in call order
    o_first,             \* length of self.execution_history when the call began
    o_workflows,         \* number of execute_workflow() calls made so far
    \* ---- one DataIngestionAgent.execute() call at a time, the destination
    \*      table and the checkpoint file (agents/roles, agents/examples) ----
    i_pc,                \* position of the call in progress, "idle" between calls
    i_agent,             \* "roles" or "examples": the agent being called
    i_context,           \* the context of the call in progress
    start_row,           \* local start_row
    total_rows,          \* local total_rows
    rows_ingested,       \* local rows_ingested
    rows_failed,         \* local rows_failed
    i_consumed,          \* data rows the chunk reader has handed out so far
    i_first_read,        \* TRUE until the chunk reader produced its first chunk
    batch_df,            \* the rows of the chunk in hand (row numbers of the source)
    txn,                 \* rows inserted by the open, uncommitted transaction
    conn,                \* the connection: "none", "open" or "closed"
    attempt,             \* loop variable of _connect_with_retry
    sleeps,              \* durations of the time.sleep calls of the call, in order
    i_result,            \* the AgentResult execute() returns
    i_runs,              \* number of execute() calls begun so far
    destination,         \* committed copies of each source row in the target table
    checkpoint,          \* content of the checkpoint file: None when it does not
                         \* exist, EmptyFile when it holds no JSON document
    \* ---- history of the call in progress, kept for the properties ----
    h_chunks,            \* chunks handed to the insertion, in order: [rows, ok]
    h_connects,          \* outcome of every connection attempt, in order
    h_ck_read,           \* last_row read from the checkpoint when the call began
    h_ck_writes,         \* the save_json calls of the call, in order: [last_row, ok]
    h_fault,             \* the fault that left _execute, "" when none did
    h_dest_start,        \* destination when the call began
    h_ck_start,          \* content of the checkpoint file when the call began
    h_dest_chunk,        \* destination when the chunk in hand was read
    h_committed,         \* rows committed by calls that had the checkpoint configured
    h_reinserted,        \* rows such a call committed although h_committed held them
    \* ---- one WorkflowOrchestrator of agents/orchestrator.py: ingest_sample_data ----
    s_pc,                \* position of ingest_sample_data(): "ready", "tables" or "done"
    s_index,             \* position of the for loop in the list tables
    s_results,           \* the local dict results
    s_report,            \* the dict ingest_sample_data() returns
    s_calls              \* number of ingest_sample_data() calls made so far

agent_vars == <<agent_kind, agent_fields, status, execution_history, pc, context,
                validation, core_calls, fault, result, escaped, returned, h_reset>>

crew_vars == <<k_pc, k_crew, k_context, k_keys, k_results, k_report, k_invoked, k_kickoffs,
               crew_agent_status, crew_agent_history>>

orch_vars == <<o_pc, o_execution_history, o_ml_output, o_summary, o_invoked, o_first,
               o_workflows>>

ingest_vars == <<i_pc, i_agent, i_context, start_row, total_rows, rows_ingested,
                 rows_failed, i_consumed, i_first_read, batch_df, txn, conn, attempt,
                 sleeps, i_result, i_runs, destination, checkpoint, h_chunks,
                 h_connects, h_ck_read, h_ck_writes, h_fault, h_dest_start, h_ck_start,
                 h_dest_chunk, h_committed, h_reinserted>>

sample_vars == <<s_pc, s_index, s_results, s_report, s_calls>>

vars == <<agent_vars, crew_vars, orch_vars, ingest_vars, sample_vars>>

-----------------------------------------------------------------------------
(* Bounds of the model *)

MaxCalls == 2            \* execute() calls between two resets
MaxKickoffs == 1         \* kickoff() calls made on the crews
MaxWorkflows == 2        \* execute_workflow() calls on the orchestrator
MaxTableRows == 1        \* rows of the table the quality checks query
MaxRows == 3             \* data rows of the source file that is not empty
MaxRuns == 2             \* execute() calls made on the ingestion agents
MaxSampleCalls == 1      \* ingest_sample_data() calls made on the orchestrator

-----------------------------------------------------------------------------
(* Python values *)

None == [none |-> TRUE]
Str(s) == [str |-> s]
EmptyDict == <<>>
Returned(v) == [raised |-> FALSE, value |-> v]
Raised(m) == [raised |-> TRUE, message |-> m]

\* A fraction <<n, d>> stands for the double nearest to n / d: a float
\* literal, or the quotient of two ints.  Rounding keeps the order of two
\* such values, which are compared as fractions.
FracLess(x, y) == x[1] * y[2] < y[1] * x[2]
Zero == <<0, 1>>

\* IEEE-754 binary64 values, as Python's float holds them.  A number is the
\* sequence of its binary digits, most significant first; a positive double
\* is m * 2^e with m of 53 digits, the first a one, and zero has no digit.
\* Exponents stay well inside the format's range for the quotients of counts
\* computed here, so subnormal results and overflow do not occur.  The
\* operations work on groups of digits that fit an integer.
Digits(n, width) == [i \in 1..width |-> (n \div 2 ^ (width - i)) % 2]

BitsOf(n) == Digits(n, CHOOSE k \in 0..30 : n < 2 ^ k /\ (k = 0 \/ 2 ^ (k - 1) <= n))

RECURSIVE IntOf(_)
IntOf(bits) ==
    LET half == Len(bits) \div 2
    IN  IF bits = <<>> THEN 0
        ELSE IF Len(bits) = 1 THEN bits[1]
        ELSE IntOf(SubSeq(bits, 1, half)) * 2 ^ (Len(bits) - half)
               + IntOf(SubSeq(bits, half + 1, Len(bits)))

\* The digits from the first one on.
Significant(bits) ==
    IF \A i \in DOMAIN bits : bits[i] = 0 THEN <<>>
    ELSE SubSeq(bits, CHOOSE i \in DOMAIN bits :
                          bits[i] = 1 /\ \A j \in 1..(i - 1) : bits[j] = 0,
                Len(bits))

DoubleZero == [m |-> <<>>, e |-> 0]

\* bits * 2^e rounded to 53 digits, to nearest and ties to even: the digits
\* beyond the 53rd, and sticky for what lies beyond the digits given, decide.
RoundDouble(bits, e, sticky) ==
    LET n == Len(bits)
        kept == SubSeq(bits, 1, 53)
        up == /\ bits[54] = 1
              /\ sticky \/ kept[53] = 1 \/ \E i \in 55..n : bits[i] = 1
        last0 == CHOOSE i \in 1..53 : kept[i] = 0 /\ \A j \in (i + 1)..53 : kept[j] = 1
    IN  IF n = 0 THEN DoubleZero
        ELSE IF n <= 53 THEN [m |-> bits \o [i \in 1..(53 - n) |-> 0], e |-> e - (53 - n)]
        ELSE IF ~up THEN [m |-> kept, e |-> e + (n - 53)]
        ELSE IF \A i \in 1..53 : kept[i] = 1
        THEN [m |-> <<1>> \o [i \in 1..52 |-> 0], e |-> e + (n - 53) + 1]
        ELSE [m |-> [i \in 1..53 |-> IF i < last0 THEN kept[i] ELSE IF i = last0 THEN 1 ELSE 0],
              e |-> e + (n - 53)]

\* bits * 2^e / d for a positive integer d, by long division on groups of
\* digits: the quotient gets at least 54 digits unless the division ends
\* before, and a remainder is sticky.
DoubleQuotient(bits, e, d) ==
    LET width == 31 - Len(BitsOf(d))
        RECURSIVE Divide(_, _, _, _)
        Divide(num, r, q, shifted) ==
            LET taken == IF Len(num) < width THEN Len(num) ELSE width
                t == r * 2 ^ width + IntOf(SubSeq(num, 1, taken)) * 2 ^ (width - taken)
            IN  IF num = <<>> /\ (r = 0 \/ Len(q) >= 54)
                THEN RoundDouble(q, e - shifted, r # 0)
                ELSE Divide(SubSeq(num, taken + 1, Len(num)), t % d,
                            Significant(q \o Digits(t \div d, width)),
                            shifted + (width - taken))
    IN  Divide(bits, 0, <<>>, 0)

\* float(n) / float(d) for integers n >= 0 and d > 0, which is also the value
\* of the literal that writes the fraction n/d in decimal.
Double(n, d) == DoubleQuotient(BitsOf(n), 0, d)

\* x + y
DoubleAdd(x, y) ==
    LET hi == IF x.e >= y.e THEN x ELSE y
        lo == IF x.e >= y.e THEN y ELSE x
        RECURSIVE Add(_, _, _)
        Add(a, b, carry) ==
            LET na == IF Len(a) < 28 THEN Len(a) ELSE 28
                nb == IF Len(b) < 28 THEN Len(b) ELSE 28
                s == IntOf(SubSeq(a, Len(a) - na + 1, Len(a)))
                       + IntOf(SubSeq(b, Len(b) - nb + 1, Len(b))) + carry
            IN  IF a = <<>> /\ b = <<>> THEN BitsOf(carry)
                ELSE Add(SubSeq(a, 1, Len(a) - na), SubSeq(b, 1, Len(b) - nb), s \div 2 ^ 28)
                       \o Digits(s % 2 ^ 28, 28)
    IN  IF x = DoubleZero THEN y
        ELSE IF y = DoubleZero THEN x
        ELSE IF hi.e - lo.e > 55 THEN hi
        ELSE RoundDouble(Significant(Add(hi.m \o [i \in 1..(hi.e - lo.e) |-> 0], lo.m, 0)),
                         lo.e, FALSE)

\* sum(scores): the additions are made from left to right, starting from 0.
RECURSIVE DoubleSum(_)
DoubleSum(scores) ==
    IF scores = <<>> THEN DoubleZero
    ELSE DoubleAdd(DoubleSum(SubSeq(scores, 1, Len(scores) - 1)), scores[Len(scores)])

\* The digits of bits * k + carry, for an integer k from 1 to 1000.
RECURSIVE BitsTimes(_, _, _)
BitsTimes(bits, k, carry) ==
    LET taken == IF Len(bits) < 20 THEN Len(bits) ELSE 20
        t == IntOf(SubSeq(bits, Len(bits) - taken + 1, Len(bits))) * k + carry
    IN  IF bits = <<>> THEN BitsOf(carry)
        ELSE BitsTimes(SubSeq(bits, 1, Len(bits) - taken), k, t \div 2 ^ 20)
               \o Digits(t % 2 ^ 20, 20)

\* x * k
DoubleTimes(x, k) == RoundDouble(Significant(BitsTimes(x.m, k, 0)), x.e, FALSE)

\* x < y
DoubleLess(x, y) ==
    IF y = DoubleZero THEN FALSE
    ELSE IF x = DoubleZero THEN TRUE
    ELSE \/ x.e < y.e
         \/ /\ x.e = y.e
            /\ \E i \in 1..53 : x.m[i] < y.m[i] /\ \A j \in 1..(i - 1) : x.m[j] = y.m[j]

-----------------------------------------------------------------------------
(* agents/core/base_agent.py: AgentStatus, AgentResult, ValidationResult *)

IDLE == "idle"
RUNNING == "running"
SUCCESS == "success"
FAILED == "failed"
PAUSED == "paused"
AgentStatus == {IDLE, RUNNING, SUCCESS, FAILED, PAUSED}

\* AgentResult.__init__: metrics, errors and metadata default to empty.
AgentResult(st, output, errors, metadata) ==
    [status |-> st, output |-> output, metrics |-> EmptyDict,
     errors |-> errors, metadata |-> metadata]

\* AgentResult.to_dict: the status enum becomes its value, the rest is copied.
to_dict(r) ==
    [status |-> r.status, output |-> r.output, metrics |-> r.metrics,
     errors |-> r.errors, metadata |-> r.metadata]

is_success(r) == r.status = SUCCESS

ValidationResult(is_valid, errors) == [is_valid |-> is_valid, errors |-> errors]
ValidationSuccess == ValidationResult(TRUE, <<>>)
ValidationFailure(errors) == ValidationResult(FALSE, errors)

-----------------------------------------------------------------------------
(* agents/roles/data_engineer.py: the three concrete agents *)

AgentKinds == {"ingestion", "transformation", "quality"}

AgentName(kind) ==
    CASE kind = "ingestion" -> "DataIngestionAgent"
      [] kind = "transformation" -> "DataTransformationAgent"
      [] kind = "quality" -> "DataQualityAgent"

\* The arguments each subclass hands to BaseAgent.__init__ (tools by class
\* name; config is left to its default {}).
AgentDescription(kind) ==
    CASE kind = "ingestion" -> "Ingest CSV data into PostgreSQL"
      [] kind = "transformation" -> "Run dbt transformations"
      [] kind = "quality" -> "Validate data quality"

AgentTools(kind) ==
    CASE kind = "ingestion" -> << "DatabaseTool", "FileTool" >>
      [] kind = "transformation" -> <<>>
      [] kind = "quality" -> << "DatabaseTool" >>

\* BaseAgent.__init__ (lines 98-101): the fields set once at construction.
AgentFields(kind) ==
    [name |-> AgentName(kind), description |-> AgentDescription(kind),
     tools |-> AgentTools(kind), config |-> EmptyDict]

\* Source paths and table names the contexts are drawn from.  A table name
\* is a sequence of characters so that its dots can be inspected.
SourcePath == "data/sample/icustays.csv"
TableNames ==
    { <<"r", ".", "i">>, <<"i">>, <<"r", ".", "i", ".", "x">>, <<".", "i">>, <<"r", ".">> }

HasDot(name) == \E i \in DOMAIN name : name[i] = "."

\* str.split('.') as insert_dataframe applies it to the table name: the
\* pieces between the dots, empty pieces included.
RECURSIVE SplitDot(_)
SplitDot(name) ==
    IF ~HasDot(name) THEN << name >>
    ELSE LET i == CHOOSE k \in DOMAIN name :
                      name[k] = "." /\ \A j \in 1..(k - 1) : name[j] # "."
         IN  << SubSeq(name, 1, i - 1) >> \o SplitDot(SubSeq(name, i + 1, Len(name)))

\* Ingestion contexts: each of the two required keys is absent, None or a str.
SourceFileOptions ==
    { EmptyDict } \cup { [source_file |-> v] : v \in { Str(SourcePath), None } }

TargetTableOptions ==
    { EmptyDict } \cup { [target_table |-> v] : v \in { Str(t) : t \in TableNames } \cup { None } }

IngestionContexts == { s @@ t : s \in SourceFileOptions, t \in TargetTableOptions }

TransformationContexts ==
    { EmptyDict,
      [command |-> "run", models |-> << "staging.*" >>],
      [command |-> "test", models |-> << "staging.*", "marts.*" >>],
      [command |-> "run", vars |-> << <<"k", "v">> >>],
      [command |-> "docs generate", models |-> "staging.*"],
      [command |-> "run", models |-> << "it's" >>, vars |-> << <<"k", "a\"b">>, <<"n", 1>> >>],
      [command |-> "run", models |-> << "staging.*" >>,
       vars |-> << <<"start_date", "2020-01-01">>, <<"k", "v">> >>] }

CheckNames == {"completeness", "uniqueness"}

QualityContexts ==
    { EmptyDict,
      [table_name |-> Str(<<"r", ".", "i">>)],
      [table_name |-> Str(<<"r", ".", "i">>), checks |-> {"completeness", "uniqueness"}],
      [table_name |-> Str(<<"r", ".", "i">>), checks |-> {"uniqueness"}],
      [table_name |-> Str(<<"r", ".", "i">>), checks |-> {}] }

Contexts(kind) ==
    CASE kind = "ingestion" -> IngestionContexts
      [] kind = "transformation" -> TransformationContexts
      [] kind = "quality" -> QualityContexts

\* DataIngestionAgent.validate_inputs.  file_exists is Path.exists() of the
\* source file.  Path(None) and "'.' in None" raise TypeError.
IngestionValidateInputs(ctx, file_exists) ==
    LET e1 == IF "source_file" \notin DOMAIN ctx
              THEN << "Missing required field: source_file" >> ELSE <<>>
        e2 == IF "target_table" \notin DOMAIN ctx
              THEN << "Missing required field: target_table" >> ELSE <<>>
        e3 == IF "source_file" \in DOMAIN ctx /\ ctx["source_file"] # None /\ ~file_exists
              THEN << "Source file does not exist: " \o ctx["source_file"].str >> ELSE <<>>
        e4 == IF "target_table" \in DOMAIN ctx /\ ctx["target_table"] # None
                 /\ ~HasDot(ctx["target_table"].str)
              THEN << "target_table must include schema (e.g., raw.icustays)" >> ELSE <<>>
        errors == e1 \o e2 \o e3 \o e4
    IN  IF "source_file" \in DOMAIN ctx /\ ctx["source_file"] = None
        THEN Raised("expected str, bytes or os.PathLike object, not NoneType")
        ELSE IF "target_table" \in DOMAIN ctx /\ ctx["target_table"] = None
        THEN Raised("argument of type 'NoneType' is not iterable")
        ELSE IF errors # <<>> THEN Returned(ValidationFailure(errors))
        ELSE Returned(ValidationSuccess)

\* DataTransformationAgent.validate_inputs.  dir_exists is
\* self.dbt_project_dir.exists().
TransformationValidateInputs(ctx, dir_exists) ==
    LET errors == IF ~dir_exists
                  THEN << "dbt project directory not found: dbt_project" >> ELSE <<>>
    IN  IF errors # <<>> THEN Returned(ValidationFailure(errors))
        ELSE Returned(ValidationSuccess)

\* DataQualityAgent.validate_inputs.
QualityValidateInputs(ctx) ==
    LET errors == IF "table_name" \notin DOMAIN ctx
                  THEN << "Missing required field: table_name" >> ELSE <<>>
    IN  IF errors # <<>> THEN Returned(ValidationFailure(errors))
        ELSE Returned(ValidationSuccess)

\* validate_inputs of the agent of the given kind; env is what the file
\* system answers to the one exists() call the agent makes.
validate_inputs(kind, ctx, env) ==
    CASE kind = "ingestion" -> IngestionValidateInputs(ctx, env)
      [] kind = "transformation" -> TransformationValidateInputs(ctx, env)
      [] kind = "quality" -> QualityValidateInputs(ctx)

-----------------------------------------------------------------------------
(* _execute of the three concrete agents *)

\* A variant of the summary that divides whatever the row count.
IngestionSummaryUnguarded(ctx, stats) ==
    [source_file |-> ctx["source_file"], target_table |-> ctx["target_table"],
     rows_ingested |-> stats[2], rows_failed |-> stats[3], total_rows |-> stats[1],
     success_rate |-> <<stats[2], stats[1]>>]

\* DataIngestionAgent._execute, seen from BaseAgent.execute: it returns the
\* summary built at lines 136-143 or lets a fault of the source reader
\* escape.  stats is <<total_rows, rows_ingested, rows_failed>>.
IngestionSummary(ctx, stats) ==
    [source_file |-> ctx["source_file"], target_table |-> ctx["target_table"],
     rows_ingested |-> stats[2], rows_failed |-> stats[3], total_rows |-> stats[1],
     success_rate |-> IF stats[1] > 0 THEN <<stats[2], stats[1]>> ELSE Zero]

\* The counters <<total_rows, rows_ingested, rows_failed>> a call can end
\* with on the sources of these contexts, which are read as one chunk: the
\* chunk is inserted, or its insert fails (lines 118-131), or the source has
\* no data row.
IngestionRuns == { <<2, 2, 0>>, <<2, 0, 2>>, <<0, 0, 0>> }

\* context['source_file'] and context['target_table'] (lines 88-89) raise
\* KeyError on a missing key; open(None) raises TypeError.
IngestionExecuteOutcomes(ctx) ==
    IF "source_file" \notin DOMAIN ctx THEN { Raised("'source_file'") }
    ELSE IF "target_table" \notin DOMAIN ctx THEN { Raised("'target_table'") }
    ELSE IF ctx["source_file"] = None
    THEN { Raised("expected str, bytes or os.PathLike object, not NoneType") }
    ELSE { Returned(IngestionSummary(ctx, s)) : s \in IngestionRuns }
            \cup { Raised("No columns to parse from file") }

\* ' '.join(words)
RECURSIVE Join(_)
Join(words) ==
    IF words = <<>> THEN ""
    ELSE IF Len(words) = 1 THEN words[1]
    ELSE words[1] \o " " \o Join(Tail(words))

Get(dict, key, default) == IF key \in DOMAIN dict THEN dict[key] ELSE default

\* The Python type of a value: a str is a string, an int an integer, a bool
\* a Boolean, a list a sequence, a set a set, None the record None and a dict
\* any other record or function.  The type is read off the first character of
\* the value as TLC writes it.
type_name(v) ==
    LET first == Head(ToString(v))
    IN  IF first = "\"" THEN "str"
        ELSE IF first = "<" THEN "list"
        ELSE IF first = "{" THEN "set"
        ELSE IF first = "[" THEN (IF v = None THEN "NoneType" ELSE "dict")
        ELSE IF first = "(" THEN "dict"
        ELSE IF first \in { "T", "F" } THEN "bool"
        ELSE "int"

\* bool(v); the str of a context, [str |-> s], is false when s is empty.
Truthy(v) ==
    CASE type_name(v) = "str" -> v # ""
      [] type_name(v) = "list" -> v # <<>>
      [] type_name(v) = "set" -> v # {}
      [] type_name(v) = "dict" -> v # Str("")
      [] type_name(v) = "NoneType" -> FALSE
      [] type_name(v) = "bool" -> v
      [] type_name(v) = "int" -> v # 0

\* The characters of a str, in order.
Chars(s) == [i \in 1..Len(s) |-> SubSeq(s, i, i)]

\* The characters a str is made of here, in code point order: U+0020..U+005F,
\* U+0061..U+007E and U+00A0..U+00FF, beside TAB, LF, FF and CR.
AsciiUpper == " !\"#$%&'()*+,-./0123456789:;<=>?@ABCDEFGHIJKLMNOPQRSTUVWXYZ[\\]^_"
AsciiLower == "abcdefghijklmnopqrstuvwxyz{|}~"
Latin1 == " ¡¢£¤¥¦§¨©ª«¬­®¯°±²³´µ¶·¸¹º»¼½¾¿ÀÁÂÃÄÅÆÇÈÉÊËÌÍÎÏÐÑÒÓÔÕÖ×ØÙÚÛÜÝÞßàáâãäåæçèéêëìíîïðñòóôõö÷øùúûüýþÿ"

\* ord(c)
ord(c) ==
    LET Holds(s) == \E i \in 1..Len(s) : SubSeq(s, i, i) = c
        Index(s) == CHOOSE i \in 1..Len(s) : SubSeq(s, i, i) = c
    IN  CASE c = "\t" -> 9
          [] c = "\n" -> 10
          [] c = "\f" -> 12
          [] c = "\r" -> 13
          [] Holds(AsciiLower) -> 96 + Index(AsciiLower)
          [] Holds(AsciiUpper) -> 31 + Index(AsciiUpper)
          [] Holds(Latin1) -> 159 + Index(Latin1)

\* json.dumps of a str with ensure_ascii: the quote and the backslash get a
\* backslash, a control character its short escape, and any other character
\* outside U+0020..U+007E is written \uXXXX.  A character ord() has no value
\* for has no encoding here.
JsonString(s) ==
    LET Hex(k) == SubSeq("0123456789abcdef", k + 1, k + 1)
        Escape(c) ==
            CASE c = "\"" -> "\\\""
              [] c = "\\" -> "\\\\"
              [] c = "\n" -> "\\n"
              [] c = "\r" -> "\\r"
              [] c = "\t" -> "\\t"
              [] c = "\f" -> "\\f"
              [] OTHER -> IF ord(c) < 127 THEN c
                          ELSE "\\u" \o Hex(ord(c) \div 4096) \o Hex((ord(c) \div 256) % 16)
                                 \o Hex((ord(c) \div 16) % 16) \o Hex(ord(c) % 16)
        RECURSIVE Escaped(_)
        Escaped(t) ==
            IF t = "" THEN ""
            ELSE IF Len(t) = 1 THEN Escape(t)
            ELSE Escaped(SubSeq(t, 1, Len(t) \div 2))
                   \o Escaped(SubSeq(t, Len(t) \div 2 + 1, Len(t)))
    IN  "\"" \o Escaped(s) \o "\""

\* json.dumps of a value: a str, an int, a bool, None or a list of these.
RECURSIVE JsonValue(_)
JsonValue(v) ==
    LET RECURSIVE Elements(_)
        Elements(l) == IF l = <<>> THEN ""
                       ELSE JsonValue(l[1])
                              \o (IF Len(l) > 1 THEN ", " \o Elements(Tail(l)) ELSE "")
    IN  CASE type_name(v) = "str" -> JsonString(v)
          [] type_name(v) = "int" -> ToString(v)
          [] type_name(v) = "bool" -> IF v THEN "true" ELSE "false"
          [] type_name(v) = "NoneType" -> "null"
          [] type_name(v) = "list" -> "[" \o Elements(v) \o "]"

\* json.dumps of a dict with str keys.  The dict is the sequence of its
\* <<key, value>> items, in insertion order.
RECURSIVE JsonItems(_)
JsonItems(items) ==
    IF items = <<>> THEN ""
    ELSE JsonString(items[1][1]) \o ": " \o JsonValue(items[1][2])
           \o (IF Len(items) > 1 THEN ", " \o JsonItems(Tail(items)) ELSE "")

json_dumps(items) == "{" \o JsonItems(items) \o "}"

\* repr() of a str: between double quotes when the str holds a single quote
\* and no double quote, else between single quotes; the backslash and the
\* delimiter get a backslash, LF, CR and TAB their short escape and a
\* character that is not printable is written \xNN.  Of the characters a str
\* is made of here, FF, U+00A0 and U+00AD are not printable; a character
\* beyond U+00FF is taken as printable.
ReprString(s) ==
    LET Holds(c) == \E i \in 1..Len(s) : SubSeq(s, i, i) = c
        quote == IF Holds("'") /\ ~Holds("\"") THEN "\"" ELSE "'"
        Escape(c) ==
            CASE c = "\\" -> "\\\\"
              [] c = quote -> "\\" \o c
              [] c = "\n" -> "\\n"
              [] c = "\r" -> "\\r"
              [] c = "\t" -> "\\t"
              [] c = "\f" -> "\\x0c"
              [] c = SubSeq(Latin1, 1, 1) -> "\\xa0"
              [] c = SubSeq(Latin1, 14, 14) -> "\\xad"
              [] OTHER -> c
        RECURSIVE Escaped(_)
        Escaped(t) ==
            IF t = "" THEN ""
            ELSE IF Len(t) = 1 THEN Escape(t)
            ELSE Escaped(SubSeq(t, 1, Len(t) \div 2))
                   \o Escaped(SubSeq(t, Len(t) \div 2 + 1, Len(t)))
    IN  quote \o Escaped(s) \o quote

\* repr() of a value: a str, an int, a bool, None or a list of these, the
\* items of a list between brackets: ['a', 'b'].
RECURSIVE repr(_)
RECURSIVE ReprItems(_)
ReprItems(words) ==
    IF words = <<>> THEN ""
    ELSE repr(words[1]) \o (IF Len(words) > 1 THEN ", " \o ReprItems(Tail(words)) ELSE "")

repr(v) ==
    CASE type_name(v) = "str" -> ReprString(v)
      [] type_name(v) = "int" -> ToString(v)
      [] type_name(v) = "bool" -> IF v THEN "True" ELSE "False"
      [] type_name(v) = "NoneType" -> "None"
      [] type_name(v) = "list" -> "[" \o ReprItems(v) \o "]"

\* str(): a str is itself, any other value is written as repr() writes it.
str(v) == IF type_name(v) = "str" THEN v ELSE repr(v)

\* The TypeError ' '.join(words) raises on the first item that is not a str,
\* or "" when every item is one.
JoinFault(words) ==
    LET bad == { i \in DOMAIN words : type_name(words[i]) # "str" }
        first == CHOOSE i \in bad : \A j \in bad : i <= j
    IN  IF bad = {} THEN ""
        ELSE "sequence item " \o ToString(first - 1) \o ": expected str instance, "
               \o type_name(words[first]) \o " found"

\* DataTransformationAgent._execute.  proc is the outcome of subprocess.run:
\* Raised(..) when dbt cannot be started, else Returned of the completed
\* process [returncode, stdout, stderr].  ' '.join(models) joins the items of
\* a list and the characters of a str (line 208); the command line is joined
\* for the log before dbt is started (line 214).
TransformationExecute(ctx, proc) ==
    LET command == Get(ctx, "command", "run")
        models == Get(ctx, "models", <<>>)
        vars_dict == Get(ctx, "vars", <<>>)
        words == IF type_name(models) = "str" THEN Chars(models) ELSE models
        dbt_cmd == << "dbt", command >>
                     \o (IF Truthy(models) THEN << "--models", Join(words) >> ELSE <<>>)
                     \o (IF Truthy(vars_dict) THEN << "--vars", json_dumps(vars_dict) >>
                         ELSE <<>>)
    IN  IF Truthy(models) /\ type_name(models) \in { "int", "bool" }
        THEN Raised("can only join an iterable")
        ELSE IF Truthy(models) /\ JoinFault(words) # "" THEN Raised(JoinFault(words))
        ELSE IF JoinFault(dbt_cmd) # "" THEN Raised(JoinFault(dbt_cmd))
        ELSE IF proc.raised THEN proc
        ELSE IF proc.value.returncode # 0
        THEN Raised("dbt command failed: " \o proc.value.stderr)
        ELSE Returned([command |-> Join(dbt_cmd), success |-> TRUE,
                       stdout |-> proc.value.stdout, stderr |-> proc.value.stderr,
                       return_code |-> proc.value.returncode])

ProcessOutcomes ==
    { Returned([returncode |-> 0, stdout |-> "Completed successfully", stderr |-> ""]),
      Returned([returncode |-> 1, stdout |-> "", stderr |-> "Compilation Error"]),
      Raised("[Errno 2] No such file or directory: 'dbt'") }

TransformationExecuteOutcomes(ctx) ==
    { TransformationExecute(ctx, p) : p \in ProcessOutcomes }

\* A table of 20 rows whose scores are 0.85 and 0.95: the mean the code
\* computes is the double 0.8999999999999999, below 0.90.
BorderlineTable ==
    [total_rows |-> 20, non_null_stay_id |-> 19, non_null_subject_id |-> 15,
     unique_stay_ids |-> 19]

\* What the two quality queries read from the table, as one record: COUNT(*)
\* and the counts of non-null keys (completeness), COUNT(*) and the count of
\* distinct keys (uniqueness).
TableRows ==
    { r \in [total_rows : 0..MaxTableRows, non_null_stay_id : 0..MaxTableRows,
             non_null_subject_id : 0..MaxTableRows, unique_stay_ids : 0..MaxTableRows] :
        /\ r.non_null_stay_id <= r.total_rows
        /\ r.non_null_subject_id <= r.total_rows
        /\ r.unique_stay_ids <= r.non_null_stay_id
        /\ (r.non_null_stay_id > 0 => r.unique_stay_ids > 0) }
    \cup { BorderlineTable }

\* DataQualityAgent._check_completeness: divides by 2 * total_rows; the score
\* is the double the division gives, and details is the row of its own query.
check_completeness(row) ==
    IF 2 * row.total_rows = 0 THEN Raised("division by zero")
    ELSE Returned([check |-> "completeness",
                   score |-> Double(row.non_null_stay_id + row.non_null_subject_id,
                                    2 * row.total_rows),
                   details |-> [total_rows |-> row.total_rows,
                               non_null_stay_id |-> row.non_null_stay_id,
                               non_null_subject_id |-> row.non_null_subject_id]])

\* DataQualityAgent._check_uniqueness: the score is the double the division
\* gives, or 0 for a table without rows; details is the row of its own query.
check_uniqueness(row) ==
    Returned([check |-> "uniqueness",
              score |-> IF row.total_rows > 0
                        THEN Double(row.unique_stay_ids, row.total_rows) ELSE DoubleZero,
              details |-> [total_rows |-> row.total_rows,
                           unique_stay_ids |-> row.unique_stay_ids]])

\* The post-condition threshold 0.90 of the quality score.
QualityThreshold == <<90, 100>>

\* DataQualityAgent._execute.  db is the outcome of execute_query:
\* Raised(..) when the database cannot be reached, else Returned(row).
\* context['table_name'] (line 286) raises KeyError on a missing key.
\* overall_score is sum(scores) / len(scores), computed on doubles (line 305),
\* or 0 without scores; passed compares it with the double of 0.90 (line 308).
QualityExecute(ctx, db) ==
    LET checks == Get(ctx, "checks", {"completeness", "uniqueness"})
        c == check_completeness(db.value)
        u == check_uniqueness(db.value)
        scores == (IF "completeness" \in checks THEN << c.value.score >> ELSE <<>>)
                    \o (IF "uniqueness" \in checks THEN << u.value.score >> ELSE <<>>)
        total == DoubleSum(scores)
        overall_score == IF scores # <<>>
                         THEN DoubleQuotient(total.m, total.e, Len(scores))
                         ELSE DoubleZero
        results == [k \in (checks \cap CheckNames) |->
                        IF k = "completeness" THEN c.value ELSE u.value]
    IN  IF "table_name" \notin DOMAIN ctx THEN Raised("'table_name'")
        ELSE IF checks \cap CheckNames # {} /\ db.raised THEN db
        ELSE IF "completeness" \in checks /\ c.raised THEN c
        ELSE Returned(results @@ [overall_score |-> overall_score,
                                  passed |-> ~DoubleLess(overall_score,
                                                         Double(QualityThreshold[1],
                                                                QualityThreshold[2]))])

DbOutcomes ==
    { Returned(r) : r \in TableRows } \cup { Raised("connection refused") }

\* The outcomes of _execute over the outcomes of the database, tabulated for
\* the contexts of QualityContexts.
QualityOutcomeTable ==
    [ctx \in QualityContexts |-> { QualityExecute(ctx, db) : db \in DbOutcomes }]

QualityExecuteOutcomes(ctx) ==
    IF ctx \in DOMAIN QualityOutcomeTable THEN QualityOutcomeTable[ctx]
    ELSE { QualityExecute(ctx, db) : db \in DbOutcomes }

\* The outcomes _execute can have for an agent of the given kind.
ExecuteOutcomes(kind, ctx) ==
    CASE kind = "ingestion" -> IngestionExecuteOutcomes(ctx)
      [] kind = "transformation" -> TransformationExecuteOutcomes(ctx)
      [] kind = "quality" -> QualityExecuteOutcomes(ctx)

-----------------------------------------------------------------------------
(* agents/core/base_agent.py: BaseAgent.execute *)

\* The result built when validation fails (lines 125-129).
ValidationFailedResult(v) == AgentResult(FAILED, None, v.errors, EmptyDict)

\* A variant of the except clause's result that drops the fault's message.
FaultResultWithoutMessage(message) == AgentResult(FAILED, None, <<>>, EmptyDict)

\* The result built by the except clause (lines 152-156).
FaultResult(message) == AgentResult(FAILED, None, << message >>, EmptyDict)

\* The result built after _execute returned (lines 139-146).
SuccessResult(name, ctx, output) ==
    AgentResult(SUCCESS, output, <<>>, [agent_name |-> name, context |-> ctx])

\* execute() as a function of what validate_inputs and _execute did: v is the
\* outcome of validate_inputs, o the outcome of _execute (read only when
\* validation passed).
ExecuteResult(name, ctx, v, o) ==
    IF v.raised THEN FaultResult(v.message)
    ELSE IF ~v.value.is_valid THEN ValidationFailedResult(v.value)
    ELSE IF o.raised THEN FaultResult(o.message)
    ELSE SuccessResult(name, ctx, o.value)

NoResult == None
NotValidated == None

\* __init__ (lines 98-103): the agent starts Idle with an empty history.
AgentInit ==
    /\ agent_kind \in AgentKinds
    /\ agent_fields = AgentFields(agent_kind)
    /\ status = IDLE
    /\ execution_history = <<>>
    /\ h_reset = None
    /\ pc = "ready"
    /\ context = EmptyDict
    /\ validation = NotValidated
    /\ core_calls = 0
    /\ fault = <<>>
    /\ result = NoResult
    /\ escaped = FALSE
    /\ returned = <<>>

\* execute() is entered (lines 117-118): the status becomes Running.
ExecuteEnter(ctx) ==
    /\ pc = "ready"
    /\ Len(execution_history) < MaxCalls
    /\ status' = RUNNING
    /\ pc' = "validate"
    /\ context' = ctx
    /\ validation' = NotValidated
    /\ core_calls' = 0
    /\ fault' = <<>>
    /\ result' = NoResult
    /\ UNCHANGED <<agent_kind, agent_fields, h_reset, execution_history, escaped, returned>>

\* A variant of execute() without the except clause: the fault propagates to
\* the caller and no result is built or recorded.
PropagateException(message) ==
    /\ escaped' = TRUE
    /\ pc' = "returned"
    /\ UNCHANGED <<status, execution_history, result>>

\* The except clause and the lines after it (lines 150-161).
HandleException(message) ==
    /\ result' = FaultResult(message)
    /\ status' = FAILED
    /\ execution_history' = Append(execution_history, FaultResult(message))
    /\ pc' = "returned"
    /\ UNCHANGED escaped

\* A variant in which an invalid context does not stop execute(): the core
\* logic runs all the same.
IgnoreValidationFailure(v) ==
    /\ pc' = "core"
    /\ UNCHANGED <<status, execution_history, result, escaped>>

\* A variant of the early return that does not record the result.
ReturnValidationFailureUnrecorded(v) ==
    /\ result' = ValidationFailedResult(v)
    /\ status' = FAILED
    /\ pc' = "returned"
    /\ UNCHANGED <<execution_history, escaped>>

\* A variant of the early return that leaves the status untouched.
ReturnValidationFailureStillRunning(v) ==
    /\ result' = ValidationFailedResult(v)
    /\ execution_history' = Append(execution_history, ValidationFailedResult(v))
    /\ pc' = "returned"
    /\ UNCHANGED <<status, escaped>>

\* The early return on a validation failure (lines 123-132).
ReturnValidationFailure(v) ==
    /\ result' = ValidationFailedResult(v)
    /\ status' = FAILED
    /\ execution_history' = Append(execution_history, ValidationFailedResult(v))
    /\ pc' = "returned"
    /\ UNCHANGED escaped

\* The success path (lines 139-148, 160-161).
ReturnSuccess(output) ==
    /\ result' = SuccessResult(agent_fields.name, context, output)
    /\ status' = SUCCESS
    /\ execution_history' =
           Append(execution_history, SuccessResult(agent_fields.name, context, output))
    /\ pc' = "returned"
    /\ UNCHANGED escaped

\* Step 1 of execute() (lines 122-132): validate_inputs is called.
ExecuteValidate ==
    /\ pc = "validate"
    /\ \E env \in BOOLEAN :
         LET v == validate_inputs(agent_kind, context, env)
         IN  /\ validation' = v
             /\ fault' = IF v.raised THEN << v.message >> ELSE <<>>
             /\ IF v.raised THEN HandleException(v.message)
                ELSE IF ~v.value.is_valid THEN ReturnValidationFailure(v.value)
                ELSE /\ pc' = "core"
                     /\ UNCHANGED <<status, execution_history, result, escaped>>
    /\ UNCHANGED <<agent_kind, agent_fields, h_reset, context, core_calls, returned>>

\* Step 2 of execute() (line 136): _execute is called.
ExecuteCore ==
    /\ pc = "core"
    /\ core_calls' = core_calls + 1
    /\ \E o \in ExecuteOutcomes(agent_kind, context) :
         /\ fault' = IF o.raised THEN << o.message >> ELSE <<>>
         /\ IF o.raised THEN HandleException(o.message) ELSE ReturnSuccess(o.value)
    /\ UNCHANGED <<agent_kind, agent_fields, h_reset, context, validation, returned>>

\* The caller receives the result of execute().
ExecuteReturn ==
    /\ pc = "returned"
    /\ pc' = "ready"
    /\ returned' = Append(returned, result)
    /\ UNCHANGED <<agent_kind, agent_fields, h_reset, status, execution_history, context, validation,
                   core_calls, fault, result, escaped>>

\* A variant of reset() that leaves the history in place.
ResetKeepsHistory ==
    /\ pc = "ready"
    /\ status' = IDLE
    /\ returned' = <<>>
    /\ h_reset' = [status |-> status, calls |-> Len(execution_history)]
    /\ UNCHANGED <<agent_kind, agent_fields, execution_history, pc, context, validation,
                   core_calls, fault, result, escaped>>

\* BaseAgent.reset (lines 197-201).
Reset ==
    /\ pc = "ready"
    /\ status' = IDLE
    /\ execution_history' = <<>>
    /\ returned' = <<>>
    /\ h_reset' = [status |-> status, calls |-> Len(execution_history)]
    /\ UNCHANGED <<agent_kind, agent_fields, pc, context, validation, core_calls, fault,
                   result, escaped>>

-----------------------------------------------------------------------------
(* agents/examples/example_data_ingestion_agent.py and                     *)
(* agents/examples/example_data_pipeline_crew.py: the example agents       *)

\* AgentResult of the examples: status, output and errors only.
ExampleAgentResult(st, output, errors) ==
    [status |-> st, output |-> output, errors |-> errors]

\* AgentResult.to_dict of the examples.
example_to_dict(r) == [status |-> r.status, output |-> r.output, errors |-> r.errors]

TextPath == "data/sample/notes.txt"

\* Path(p).suffix of the paths the contexts use.
Suffix(p) ==
    CASE p = TextPath -> ".txt"
      [] OTHER -> ".csv"

\* DataIngestionAgent.validate_inputs of the examples: it also requires the
\* source file to be a .csv file.
ExampleIngestionValidateInputs(ctx, file_exists) ==
    LET e1 == IF "source_file" \notin DOMAIN ctx
              THEN << "Missing required field: source_file" >> ELSE <<>>
        e2 == IF "target_table" \notin DOMAIN ctx
              THEN << "Missing required field: target_table" >> ELSE <<>>
        e3 == IF "source_file" \in DOMAIN ctx /\ ctx["source_file"] # None
              THEN IF ~file_exists
                   THEN << "Source file not found: " \o ctx["source_file"].str >>
                   ELSE IF Suffix(ctx["source_file"].str) # ".csv"
                   THEN << "Source file must be CSV: " \o ctx["source_file"].str >>
                   ELSE <<>>
              ELSE <<>>
        e4 == IF "target_table" \in DOMAIN ctx /\ ctx["target_table"] # None
                 /\ ~HasDot(ctx["target_table"].str)
              THEN << "target_table must include schema (e.g., raw.icustays)" >> ELSE <<>>
        errors == e1 \o e2 \o e3 \o e4
    IN  IF "source_file" \in DOMAIN ctx /\ ctx["source_file"] = None
        THEN Raised("expected str, bytes or os.PathLike object, not NoneType")
        ELSE IF "target_table" \in DOMAIN ctx /\ ctx["target_table"] = None
        THEN Raised("argument of type 'NoneType' is not iterable")
        ELSE IF errors # <<>> THEN Returned(ValidationFailure(errors))
        ELSE Returned(ValidationSuccess)

\* DataTransformationAgent.validate_inputs of the examples.
ExampleTransformationValidateInputs(ctx) ==
    LET errors == IF "models" \notin DOMAIN ctx
                  THEN << "Missing required field: models" >> ELSE <<>>
    IN  IF errors # <<>> THEN Returned(ValidationFailure(errors))
        ELSE Returned(ValidationSuccess)

\* DataQualityAgent.validate_inputs of the examples.
ExampleQualityValidateInputs(ctx) ==
    LET errors == IF "table_name" \notin DOMAIN ctx
                  THEN << "Missing required field: table_name" >> ELSE <<>>
    IN  IF errors # <<>> THEN Returned(ValidationFailure(errors))
        ELSE Returned(ValidationSuccess)

example_validate_inputs(kind, ctx, env) ==
    CASE kind = "ingestion" -> ExampleIngestionValidateInputs(ctx, env)
      [] kind = "transformation" -> ExampleTransformationValidateInputs(ctx)
      [] kind = "quality" -> ExampleQualityValidateInputs(ctx)

\* DataIngestionAgent._execute of the examples, seen from execute(): the
\* summary (lines 244-251), or a fault that escapes the try/finally: of the
\* connection that could not be opened (line 223), of open(None) (line 227),
\* or of read_csv on a source without any line (line 235).
ExampleIngestionExecuteOutcomes(ctx) ==
    IF "source_file" \notin DOMAIN ctx THEN { Raised("'source_file'") }
    ELSE IF "target_table" \notin DOMAIN ctx THEN { Raised("'target_table'") }
    ELSE IF ctx["source_file"] = None
    THEN { Raised("connection refused"),
           Raised("expected str, bytes or os.PathLike object, not NoneType") }
    ELSE { Returned(IngestionSummary(ctx, s)) : s \in IngestionRuns }
            \cup { Raised("connection refused"), Raised("No columns to parse from file") }

\* DataTransformationAgent._execute of the examples: a simulated dbt run.  The
\* command it reports is f'dbt run --models {models}', whatever the context's
\* command.
ExampleTransformationExecute(ctx) ==
    IF "models" \notin DOMAIN ctx THEN Raised("'models'")
    ELSE
    Returned([command |-> "dbt run --models " \o str(ctx["models"]),
              models_run |-> 15, tests_passed |-> 12, success |-> TRUE])

\* DataQualityAgent._execute of the examples: simulated checks with fixed scores.
ExampleQualityExecute(ctx) ==
    IF "table_name" \notin DOMAIN ctx THEN Raised("'table_name'")
    ELSE
    Returned([table_name |-> ctx["table_name"], checks_run |-> 8, checks_passed |-> 8,
              completeness_score |-> <<985, 1000>>, uniqueness_score |-> <<1000, 1000>>,
              validity_score |-> <<945, 1000>>, overall_score |-> <<965, 1000>>])

ExampleExecuteOutcomes(kind, ctx) ==
    CASE kind = "ingestion" -> ExampleIngestionExecuteOutcomes(ctx)
      [] kind = "transformation" -> { ExampleTransformationExecute(ctx) }
      [] kind = "quality" -> { ExampleQualityExecute(ctx) }

\* BaseAgent.execute of the examples (example_data_ingestion_agent.py lines
\* 100-135), as a function of what validate_inputs and _execute did.
ExampleExecuteResult(v, o) ==
    IF v.raised THEN ExampleAgentResult(FAILED, None, << v.message >>)
    ELSE IF ~v.value.is_valid THEN ExampleAgentResult(FAILED, None, v.value.errors)
    ELSE IF o.raised THEN ExampleAgentResult(FAILED, None, << o.message >>)
    ELSE ExampleAgentResult(SUCCESS, o.value, <<>>)

\* The agent's status field when that execute() returns: the early return on
\* a validation failure leaves it Running.
ExampleExecuteStatus(v, o) ==
    IF v.raised THEN FAILED
    ELSE IF ~v.value.is_valid THEN RUNNING
    ELSE IF o.raised THEN FAILED
    ELSE SUCCESS

-----------------------------------------------------------------------------
(* DataPipelineCrew: agents/crews/data_pipeline_crew.py ("crews") and      *)
(* agents/examples/example_data_pipeline_crew.py ("examples")              *)

Crews == {"crews", "examples"}
TaskOrder == << "ingestion", "transformation", "quality" >>
Tasks == { TaskOrder[i] : i \in DOMAIN TaskOrder }

\* The position of a task in the fixed order of kickoff()'s task blocks.
TaskIndex(task) == CHOOSE i \in DOMAIN TaskOrder : TaskOrder[i] = task

\* The insertion orders a dict with the keys of ctx can have.
KeyOrders(ctx) ==
    { keys \in [1..Cardinality(DOMAIN ctx) -> DOMAIN ctx] :
         \A i, j \in DOMAIN keys : keys[i] = keys[j] => i = j }

\* A variant of the sequencing that walks the context's keys in their
\* insertion order ("for task in context:").
NextTaskInKeyOrder(task) ==
    IF \E i \in 1..(Len(k_keys) - 1) : k_keys[i] = task
    THEN k_keys[(CHOOSE i \in 1..(Len(k_keys) - 1) : k_keys[i] = task) + 1]
    ELSE "finish"

\* The pc after a task: the next task, or "finish" after the last one.
NextTask(task) ==
    CASE task = "ingestion" -> "transformation"
      [] task = "transformation" -> "quality"
      [] task = "quality" -> "finish"

\* The inputs a crew context holds for a task.
TaskContexts(task) ==
    CASE task = "ingestion" ->
            { [source_file |-> Str(SourcePath), target_table |-> Str(<<"r", ".", "i">>)],
              [source_file |-> Str(TextPath), target_table |-> Str(<<"r", ".", "i">>)],
              [source_file |-> Str(SourcePath), target_table |-> Str(<<"i">>)] }
      [] task = "transformation" ->
            { [command |-> "run", models |-> << "staging.*" >>],
              [command |-> "run"] }
      [] task = "quality" ->
            { [table_name |-> Str(<<"r", ".", "i">>), checks |-> {"completeness", "uniqueness"}],
              [checks |-> {"completeness", "uniqueness"}] }

TaskOptions(task) ==
    { EmptyDict } \cup { [t \in {task} |-> c] : c \in TaskContexts(task) }

\* The contexts passed to kickoff(): every task key is optional.
CrewContexts ==
    { i @@ t @@ q : i \in TaskOptions("ingestion"), t \in TaskOptions("transformation"),
                    q \in TaskOptions("quality") }

\* What one call agent.execute(ctx) can do for the agent a crew holds for a
\* task: the result it returns and the status it leaves in the agent.
AgentExecutions(crew, task, ctx) ==
    IF crew = "crews"
    THEN { [result |-> ExecuteResult(AgentName(task), ctx, validate_inputs(task, ctx, env), o),
            status |-> ExecuteResult(AgentName(task), ctx, validate_inputs(task, ctx, env), o).status,
            recorded |-> TRUE] :
              env \in BOOLEAN, o \in ExecuteOutcomes(task, ctx) }
    ELSE { [result |-> ExampleExecuteResult(example_validate_inputs(task, ctx, env), o),
            status |-> ExampleExecuteStatus(example_validate_inputs(task, ctx, env), o),
            recorded |-> FALSE] :
              env \in BOOLEAN, o \in ExampleExecuteOutcomes(task, ctx) }

\* result.to_dict() as each crew's agents implement it.
ResultDict(crew, r) == IF crew = "crews" THEN to_dict(r) ELSE example_to_dict(r)

\* The report of a failed kickoff: data_pipeline_crew.py lines 82, 95, 108 and
\* _failure_result of the examples (lines 315-337).
FailureReport(crew, task, reason, results) ==
    IF crew = "crews"
    THEN [status |-> "failed", results |-> results, failed_at |-> task]
    ELSE [status |-> "failed", reason |-> reason, results |-> results]

\* The report of a successful kickoff: data_pipeline_crew.py line 117 and
\* _success_result of the examples (lines 294-313).
SuccessReport(crew, results) == [status |-> "success", results |-> results]

\* The reason the examples' crew gives when a task's result is not a success.
FailureReason(task) ==
    CASE task = "ingestion" -> "Data ingestion failed"
      [] task = "transformation" -> "Transformation failed"
      [] task = "quality" -> "Quality validation failed"

\* A variant of the abort test in which only a failed ingestion stops the crew.
AbortsOnlyOnIngestion(task, r) == task = "ingestion" /\ ~is_success(r)

\* The abort test after a task: "if not <task>_result.is_success()".
TaskAborts(task, r) == ~is_success(r)

\* The post-condition on a successful quality result: only the examples' crew
\* compares overall_score with 0.90 (lines 272-281); the crew of agents/crews
\* reads the score and logs it (lines 110-111).
QualityGateFails(crew, r) ==
    IF crew = "crews"
    THEN LET quality_score == Get(r.output, "overall_score", Zero) IN FALSE
    ELSE LET quality_score == r.output["overall_score"]
         IN  FracLess(quality_score, QualityThreshold)

\* f"{score:.1%}": the float is multiplied by 100, the product is a double, and
\* its binary value is written with one decimal, a tie going to the even digit.
FormatPercent(score) ==
    LET magnitude == Double(IF score[1] < 0 THEN -score[1] ELSE score[1], score[2])
        percent == DoubleTimes(magnitude, 100)
        bits == Significant(BitsTimes(percent.m, 10, 0))
        n == Len(bits)
        cut == n + percent.e
        whole == IF percent.e >= 0 THEN IntOf(bits \o [i \in 1..percent.e |-> 0])
                 ELSE IntOf(SubSeq(bits, 1, cut))
        up == /\ percent.e < 0 /\ cut >= 0 /\ cut < n
              /\ bits[cut + 1] = 1
              /\ whole % 2 = 1 \/ \E i \in (cut + 2)..n : bits[i] = 1
        tenths == whole + (IF up THEN 1 ELSE 0)
    IN  (IF score[1] < 0 THEN "-" ELSE "")
          \o ToString(tenths \div 10) \o "." \o ToString(tenths % 10) \o "%"

\* The key of a successful result's output that the task block reads with
\* output[key] for its log line: lines 84 of agents/crews, lines 231, 250 and
\* 269 of the examples.  "" when the block reads none.
LoggedKey(crew, task) ==
    CASE task = "ingestion" -> "rows_ingested"
      [] task = "transformation" -> IF crew = "crews" THEN "" ELSE "models_run"
      [] task = "quality" -> IF crew = "crews" THEN "" ELSE "overall_score"

\* output[key] of the log line raises KeyError.
LogFaults(crew, task, r) ==
    LoggedKey(crew, task) # "" /\ LoggedKey(crew, task) \notin DOMAIN r.output

\* __init__ of both crews: three fresh agents each.
CrewInit ==
    /\ k_pc = "ready"
    /\ k_crew = "crews"
    /\ k_context = EmptyDict
    /\ k_results = EmptyDict
    /\ k_report = None
    /\ k_invoked = <<>>
    /\ k_keys = <<>>
    /\ k_kickoffs = 0
    /\ crew_agent_status = [c \in Crews |-> [t \in Tasks |-> IDLE]]
    /\ crew_agent_history = [c \in Crews |-> [t \in Tasks |-> <<>>]]

\* kickoff() is entered: results = {}.
Kickoff(crew, ctx) ==
    /\ k_pc = "ready"
    /\ k_kickoffs < MaxKickoffs
    /\ k_kickoffs' = k_kickoffs + 1
    /\ k_pc' = "ingestion"
    /\ k_crew' = crew
    /\ k_context' = ctx
    /\ \E keys \in KeyOrders(ctx) : k_keys' = keys
    /\ k_results' = EmptyDict
    /\ k_report' = None
    /\ k_invoked' = <<>>
    /\ UNCHANGED <<crew_agent_status, crew_agent_history>>

\* A "Task n" block whose key is present: the agent is executed on
\* context[task], its result stored, and the crew aborts or goes on.  A
\* KeyError of the log line leaves kickoff() of agents/crews; the examples'
\* kickoff() catches it ("except Exception", lines 286-292) and reports it.
RunTask(task, ctx) ==
    \E e \in AgentExecutions(k_crew, task, ctx) :
      LET results == [t \in (DOMAIN k_results) \cup {task} |->
                         IF t = task THEN ResultDict(k_crew, e.result)
                         ELSE k_results[t]]
      IN  /\ k_invoked' = Append(k_invoked, task)
          /\ crew_agent_status' = [crew_agent_status EXCEPT ![k_crew][task] = e.status]
          /\ crew_agent_history' =
                 IF e.recorded
                 THEN [crew_agent_history EXCEPT ![k_crew][task] = Append(@, e.result)]
                 ELSE crew_agent_history
          /\ k_results' = results
          /\ IF TaskAborts(task, e.result)
             THEN /\ k_report' = FailureReport(k_crew, task, FailureReason(task), results)
                  /\ k_pc' = "done"
             ELSE IF LogFaults(k_crew, task, e.result)
             THEN /\ k_report' =
                        IF k_crew = "crews"
                        THEN Raised("'" \o LoggedKey(k_crew, task) \o "'")
                        ELSE FailureReport(k_crew, task,
                                 "Unexpected error: '" \o LoggedKey(k_crew, task) \o "'",
                                 results)
                  /\ k_pc' = "done"
             ELSE IF task = "quality" /\ QualityGateFails(k_crew, e.result)
             THEN /\ k_report' = FailureReport(k_crew, task,
                                     "Quality score too low: "
                                        \o FormatPercent(e.result.output["overall_score"])
                                        \o " (threshold: 90%)", results)
                  /\ k_pc' = "done"
             ELSE /\ k_report' = k_report
                  /\ k_pc' = NextTask(task)

\* A variant of the task block that runs the agent on an empty context when
\* the task's key is absent (context.get(task, {})).
KickoffTaskNeverSkips(task) ==
    /\ k_pc = task
    /\ RunTask(task, Get(k_context, task, EmptyDict))
    /\ UNCHANGED <<k_crew, k_context, k_keys, k_kickoffs>>

\* One "Task n" block of kickoff(): skipped when the task's key is absent
\* ("if 'ingestion' in context:"), else run.
KickoffTask(task) ==
    /\ k_pc = task
    /\ IF task \notin DOMAIN k_context
       THEN /\ k_pc' = NextTask(task)
            /\ UNCHANGED <<k_results, k_report, k_invoked, crew_agent_status,
                           crew_agent_history>>
       ELSE RunTask(task, k_context[task])
    /\ UNCHANGED <<k_crew, k_context, k_keys, k_kickoffs>>

\* The end of kickoff(): every present task succeeded.
KickoffFinish ==
    /\ k_pc = "finish"
    /\ k_report' = SuccessReport(k_crew, k_results)
    /\ k_pc' = "done"
    /\ UNCHANGED <<k_crew, k_context, k_keys, k_results, k_invoked, k_kickoffs,
                   crew_agent_status, crew_agent_history>>

\* The caller receives the report.
KickoffReturn ==
    /\ k_pc = "done"
    /\ k_pc' = "ready"
    /\ k_keys' = <<>>
    /\ UNCHANGED <<k_crew, k_context, k_results, k_report, k_invoked, k_kickoffs,
                   crew_agent_status, crew_agent_history>>

-----------------------------------------------------------------------------
(* agents/examples/example_orchestrator.py: WorkflowOrchestrator *)

CREW_SUCCESS == "success"
CREW_FAILED == "failed"
CrewStatus == {"pending", "running", CREW_SUCCESS, CREW_FAILED, "skipped"}

\* CrewResult.__init__
CrewResult(crew_name, st, output, error) ==
    [crew_name |-> crew_name, status |-> st, output |-> output, error |-> error]

\* CrewResult.to_dict
crew_to_dict(r) ==
    [crew_name |-> r.crew_name, status |-> r.status, output |-> r.output, error |-> r.error]

CrewOrder == << "DataPipelineCrew", "MLDevelopmentCrew", "DeploymentCrew" >>

\* The decision gates: quality_score < 0.90 and auroc < 0.80.
DataQualityGate == <<90, 100>>
ModelPerformanceGate == <<80, 100>>

\* What the data pipeline crew can report.  The method simulates the crew and
\* reports quality_score 0.965; the other scores stand for the reports of the
\* crew it simulates, and a fault inside the try block gives a Failed result.
QualityScores == { <<965, 1000>>, <<90, 100>>, <<85, 100>> }

DataPipelineCrewResults ==
    { CrewResult("DataPipelineCrew", CREW_SUCCESS,
                 [rows_ingested |-> 73181, models_run |-> 15, quality_score |-> q], None) :
        q \in QualityScores }
    \cup { CrewResult("DataPipelineCrew", CREW_SUCCESS,
                      [rows_ingested |-> 73181, models_run |-> 15], None),
           CrewResult("DataPipelineCrew", CREW_FAILED, None, Str("connection refused")) }

\* What the ML development crew can report.  The method simulates the crew and
\* reports auroc 0.892 under the name sepsis_lightgbm_v1; the other values
\* stand for the reports of the crew it simulates, and a fault inside the try
\* block gives a Failed result.
AurocValues == { <<892, 1000>>, <<80, 100>>, <<75, 100>> }

\* The metrics the method reports beside the name, version and auroc.
MLMetrics ==
    [sensitivity |-> <<875, 1000>>, specificity |-> <<883, 1000>>,
     training_samples |-> 14000, test_samples |-> 3000]

MLDevelopmentCrewResults ==
    { CrewResult("MLDevelopmentCrew", CREW_SUCCESS,
                 [model_name |-> "sepsis_lightgbm_v1", version |-> 2, auroc |-> a]
                    @@ MLMetrics, None) :
        a \in AurocValues }
    \cup { CrewResult("MLDevelopmentCrew", CREW_SUCCESS,
                      [version |-> 2, auroc |-> <<892, 1000>>] @@ MLMetrics, None),
           CrewResult("MLDevelopmentCrew", CREW_SUCCESS,
                      [model_name |-> "sepsis_lightgbm_v1", auroc |-> <<892, 1000>>]
                         @@ MLMetrics, None),
           CrewResult("MLDevelopmentCrew", CREW_FAILED, None, Str("training failed")) }

\* _execute_deployment_crew: any fault inside the try block gives a Failed
\* result.  The simulated deployment (line 297) comes first and can fault
\* whatever the output holds; ml_dev_output['model_name'] and
\* ml_dev_output['version'] (lines 299-300) follow it and raise KeyError on a
\* missing key.
DeploymentCrewResults(ml_dev_output) ==
    { CrewResult("DeploymentCrew", CREW_FAILED, None, Str("deployment failed")) }
    \cup
    ( IF "model_name" \notin DOMAIN ml_dev_output
      THEN { CrewResult("DeploymentCrew", CREW_FAILED, None, Str("'model_name'")) }
      ELSE IF "version" \notin DOMAIN ml_dev_output
      THEN { CrewResult("DeploymentCrew", CREW_FAILED, None, Str("'version'")) }
      ELSE { CrewResult("DeploymentCrew", CREW_SUCCESS,
                        [model_name |-> ml_dev_output["model_name"],
                         version |-> ml_dev_output["version"],
                         deployed_to |-> "Production", api_updated |-> TRUE,
                         monitoring_enabled |-> TRUE], None) } )

\* The number of entries of a history with the given status.
RECURSIVE CountStatus(_, _)
CountStatus(history, st) ==
    IF history = <<>> THEN 0
    ELSE (IF history[1].status = st THEN 1 ELSE 0) + CountStatus(Tail(history), st)

\* _generate_summary
generate_summary(history, workflow_status) ==
    [workflow_status |-> workflow_status,
     crews_executed |-> Len(history),
     crews_succeeded |-> CountStatus(history, CREW_SUCCESS),
     crews_failed |-> CountStatus(history, CREW_FAILED),
     crew_results |-> [i \in DOMAIN history |-> crew_to_dict(history[i])]]

\* A variant of the failure test that lets a failed crew pass.
CrewFailureIgnored(r) == FALSE

\* "if <crew>_result.status != CrewStatus.SUCCESS" (lines 117, 140, 163)
CrewNotSuccessful(r) == r.status # CREW_SUCCESS

\* A variant of the gate that compares against the wrong side.
GateInverted(output, key, threshold) == FracLess(threshold, Get(output, key, Zero))

\* "output.get(key, 0) < threshold" (lines 122-123, 145-146)
GateStops(output, key, threshold) == FracLess(Get(output, key, Zero), threshold)

\* A variant of the last status that reports success whatever the deployment did.
FinalStatusAlwaysSuccess(r) == "success"

\* workflow_status after the deployment crew (lines 108, 163-165)
FinalStatus(r) == IF CrewNotSuccessful(r) THEN "failed" ELSE "success"

\* __init__ (lines 88-91)
OrchestratorInit ==
    /\ o_pc = "ready"
    /\ o_execution_history = <<>>
    /\ o_ml_output = None
    /\ o_summary = None
    /\ o_invoked = <<>>
    /\ o_first = 0
    /\ o_workflows = 0

\* execute_workflow() is entered (lines 103-108).
ExecuteWorkflow ==
    /\ o_pc = "ready"
    /\ o_workflows < MaxWorkflows
    /\ o_workflows' = o_workflows + 1
    /\ o_pc' = "DataPipelineCrew"
    /\ o_summary' = None
    /\ o_invoked' = <<>>
    /\ o_first' = Len(o_execution_history)
    /\ o_ml_output' = None
    /\ UNCHANGED o_execution_history

\* Crew 1 and the decision after it (lines 110-128).
RunDataPipelineCrew ==
    /\ o_pc = "DataPipelineCrew"
    /\ \E r \in DataPipelineCrewResults :
         LET history == Append(o_execution_history, r)
         IN  /\ o_execution_history' = history
             /\ o_invoked' = Append(o_invoked, r.crew_name)
             /\ IF CrewNotSuccessful(r)
                THEN /\ o_summary' = generate_summary(history, "failed")
                     /\ o_pc' = "done"
                ELSE IF GateStops(r.output, "quality_score", DataQualityGate)
                THEN /\ o_summary' = generate_summary(history, "partial_success")
                     /\ o_pc' = "done"
                ELSE /\ o_summary' = o_summary
                     /\ o_pc' = "MLDevelopmentCrew"
    /\ UNCHANGED <<o_ml_output, o_first, o_workflows>>

\* Crew 2 and the decision after it (lines 130-151).
RunMLDevelopmentCrew ==
    /\ o_pc = "MLDevelopmentCrew"
    /\ \E r \in MLDevelopmentCrewResults :
         LET history == Append(o_execution_history, r)
         IN  /\ o_execution_history' = history
             /\ o_invoked' = Append(o_invoked, r.crew_name)
             /\ o_ml_output' = r.output
             /\ IF CrewNotSuccessful(r)
                THEN /\ o_summary' = generate_summary(history, "failed")
                     /\ o_pc' = "done"
                ELSE IF GateStops(r.output, "auroc", ModelPerformanceGate)
                THEN /\ o_summary' = generate_summary(history, "partial_success")
                     /\ o_pc' = "done"
                ELSE /\ o_summary' = o_summary
                     /\ o_pc' = "DeploymentCrew"
    /\ UNCHANGED <<o_first, o_workflows>>

\* Crew 3 and the final summary (lines 153-168).
RunDeploymentCrew ==
    /\ o_pc = "DeploymentCrew"
    /\ \E r \in DeploymentCrewResults(o_ml_output) :
         LET history == Append(o_execution_history, r)
         IN  /\ o_execution_history' = history
             /\ o_invoked' = Append(o_invoked, r.crew_name)
             /\ o_summary' = generate_summary(history, FinalStatus(r))
             /\ o_pc' = "done"
    /\ UNCHANGED <<o_ml_output, o_first, o_workflows>>

\* The caller receives the summary.
WorkflowReturn ==
    /\ o_pc = "done"
    /\ o_pc' = "ready"
    /\ UNCHANGED <<o_execution_history, o_ml_output, o_summary, o_invoked, o_first,
                   o_workflows>>

-----------------------------------------------------------------------------
(* The checkpointed batch ingestor: DataIngestionAgent of                  *)
(* agents/roles/data_engineer.py ("roles", with DatabaseTool and FileTool) *)
(* and of agents/examples/example_data_ingestion_agent.py ("examples")     *)

Ingestors == {"roles", "examples"}

Min(a, b) == IF a < b THEN a ELSE b

\* The files of the model: a source with MaxRows data rows, a source that
\* holds its header line only, a source without any line, and one checkpoint
\* file.
EmptyPath == "data/sample/empty.csv"
BlankPath == "data/sample/blank.csv"
CheckpointPath == "data/checkpoints/icustays.json"
SourceFiles == { SourcePath, EmptyPath, BlankPath }

\* Lines of a source file: the header and one line per data row.
FileLines(path) ==
    CASE path = SourcePath -> MaxRows + 1
      [] path = EmptyPath -> 1
      [] path = BlankPath -> 0

\* FileTool.count_csv_rows, and the same count at line 223 of the examples.
count_csv_rows(path) == FileLines(path) - 1

\* self.batch_size and self.max_retries set by __init__.
batch_size_default == 10000
max_retries == 3

\* The contexts of the ingestion calls: both required keys, batch_size and
\* checkpoint_file optional, and one context whose checkpoint_file is ''.
BatchSizeOptions == { EmptyDict } \cup { [batch_size |-> n] : n \in {1, 2} }
CheckpointOptions == { EmptyDict, [checkpoint_file |-> Str(CheckpointPath)] }
IngestionCallContexts ==
    { [source_file |-> Str(p), target_table |-> Str(<<"r", ".", "i">>)] @@ b @@ c :
        p \in SourceFiles, b \in BatchSizeOptions, c \in CheckpointOptions }
    \cup { [source_file |-> Str(SourcePath), target_table |-> Str(<<"r", ".", "i">>),
            checkpoint_file |-> Str("")] }

\* validate_inputs of the called agent; the files of the model exist.
IngestionCallValidation(agent, ctx) ==
    IF agent = "roles" THEN IngestionValidateInputs(ctx, TRUE)
    ELSE ExampleIngestionValidateInputs(ctx, TRUE)

\* A variant of the skipped lines that stops one line early.
SkipRowsExclusive(first) == 1 .. first - 1

\* skiprows=range(1, start_row + 1): the file lines the reader leaves out
\* (line 0 is the header).
SkipRows(first) == 1 .. first

\* The data rows pd.read_csv hands out, in file order: the lines 1 .. n - 1
\* of the file that are not skipped.
DataRows(path, first) ==
    SelectSeq([ line \in 1 .. FileLines(path) - 1 |-> line ],
              LAMBDA line : line \notin SkipRows(first))

\* The next chunk of the reader: at most chunksize rows after those consumed.
ReadChunk(rows, consumed, chunksize) ==
    SubSeq(rows, consumed + 1, Min(consumed + chunksize, Len(rows)))

\* The reader yields a chunk while rows remain; its first chunk is yielded
\* even when no data row is left to read (an empty frame).
ReaderYields(rows, consumed, first_read) == first_read \/ consumed < Len(rows)

\* The rows of a chunk as a set.
RowSet(rows) == { rows[i] : i \in DOMAIN rows }

\* The target table after a transaction that inserted rows is committed.
Committed(dest, rows) ==
    [ r \in DOMAIN dest |-> IF r \in RowSet(rows) THEN dest[r] + 1 ELSE dest[r] ]

\* A variant of the rollback that keeps the rows inserted before the fault.
RollbackKeepsRows(dest, rows) == Committed(dest, rows)

\* conn.rollback(): the rows of the open transaction are discarded.
Rollback(dest, rows) == dest

\* conn.close() / DatabaseTool.close().
Close(c) == IF c = "open" THEN "closed" ELSE c

\* The connection when _execute is left: the examples close it in a finally
\* clause, the agent of agents/roles never calls DatabaseTool.close().
ConnAtExit(agent, c) == IF agent = "examples" THEN Close(c) ELSE c

\* DatabaseTool.connect: a new connection is opened unless one is open.
NeedsConnect(c) == c = "none" \/ c = "closed"

\* Outcomes of psycopg2.connect.
ConnectOutcomes == { "ok", "OperationalError", "ProgrammingError" }

\* A variant of the delay that starts at 2 seconds.
DelayFromTwo(n) == 2 ^ (n + 1)

\* delay = 2 ** attempt
Delay(n) == 2 ^ n

\* if attempt == self.max_retries - 1: raise
IsLastAttempt(n) == n = max_retries - 1

\* The result execute() builds around _execute for a valid context.
IngestionFaultResult(agent, message) ==
    IF agent = "roles" THEN FaultResult(message)
    ELSE ExampleAgentResult(FAILED, None, << message >>)

IngestionSuccessResult(agent, ctx, output) ==
    IF agent = "roles" THEN SuccessResult(AgentName("ingestion"), ctx, output)
    ELSE ExampleAgentResult(SUCCESS, output, <<>>)

NoRow == [ r \in 1 .. MaxRows |-> 0 ]

IngestionInit ==
    /\ i_pc = "idle"
    /\ i_agent = "roles"
    /\ i_context = EmptyDict
    /\ start_row = 0
    /\ total_rows = 0
    /\ rows_ingested = 0
    /\ rows_failed = 0
    /\ i_consumed = 0
    /\ i_first_read = TRUE
    /\ batch_df = <<>>
    /\ txn = <<>>
    /\ conn = "none"
    /\ attempt = 0
    /\ sleeps = <<>>
    /\ i_result = None
    /\ i_runs = 0
    /\ destination = NoRow
    /\ checkpoint = None
    /\ h_chunks = <<>>
    /\ h_connects = <<>>
    /\ h_ck_read = 0
    /\ h_ck_writes = <<>>
    /\ h_fault = ""
    /\ h_dest_start = NoRow
    /\ h_ck_start = None
    /\ h_dest_chunk = NoRow
    /\ h_committed = {}
    /\ h_reinserted = {}

\* execute(context) is entered on one of the two agents with a context that
\* passes validate_inputs; every call of a behaviour is made on the same agent
\* and with the same batch_size, on any of the sources and with or without
\* the checkpoint file.
IngestExecute(agent, ctx) ==
    /\ i_pc = "idle"
    /\ i_runs < MaxRuns
    /\ i_runs = 0 \/ agent = i_agent
    /\ i_runs = 0 \/ Get(ctx, "batch_size", 0) = Get(i_context, "batch_size", 0)
    /\ IngestionCallValidation(agent, ctx) = Returned(ValidationSuccess)
    /\ i_runs' = i_runs + 1
    /\ i_agent' = agent
    /\ i_context' = ctx
    /\ i_pc' = IF agent = "roles" THEN "load_checkpoint" ELSE "connect"
    /\ start_row' = 0
    /\ total_rows' = 0
    /\ rows_ingested' = 0
    /\ rows_failed' = 0
    /\ i_consumed' = 0
    /\ i_first_read' = TRUE
    /\ batch_df' = <<>>
    /\ txn' = <<>>
    /\ attempt' = 0
    /\ sleeps' = <<>>
    /\ i_result' = None
    /\ h_chunks' = <<>>
    /\ h_connects' = <<>>
    /\ h_ck_read' = 0
    /\ h_ck_writes' = <<>>
    /\ h_fault' = ""
    /\ h_dest_start' = destination
    /\ h_ck_start' = checkpoint
    /\ h_dest_chunk' = destination
    /\ UNCHANGED <<conn, destination, checkpoint, h_committed, h_reinserted>>

\* A fault leaves _execute: execute() turns it into a Failed result; the
\* examples' finally clause runs when the fault is raised inside the try.
Raise(message, in_try) ==
    /\ h_fault' = message
    /\ i_result' = IngestionFaultResult(i_agent, message)
    /\ conn' = IF in_try THEN ConnAtExit(i_agent, conn) ELSE conn
    /\ i_pc' = "done"

\* A checkpoint file that open(file_path, 'w') has truncated and into which no
\* document has been written: it exists and holds no JSON document.
EmptyFile == [empty |-> TRUE]

JSONDecodeError == "Expecting value: line 1 column 1 (char 0)"

\* FileTool.load_json of an existing file: json.load raises on a file that
\* holds no document.
load_json(file) ==
    IF file = EmptyFile THEN Raised(JSONDecodeError) ELSE Returned(file)

\* Lines 95-100 of agents/roles: the resume offset.  The file is loaded when
\* checkpoint_file is truthy and Path(checkpoint_file).exists(); a fault of
\* load_json leaves _execute.
LoadCheckpoint ==
    /\ i_pc = "load_checkpoint"
    /\ LET checkpoint_file == Get(i_context, "checkpoint_file", None)
       IN  IF Truthy(checkpoint_file) /\ checkpoint # None
           THEN LET loaded == load_json(checkpoint)
                IN  IF loaded.raised
                    THEN /\ Raise(loaded.message, FALSE)
                         /\ UNCHANGED <<start_row, h_ck_read>>
                    ELSE /\ start_row' = Get(loaded.value, "last_row", 0)
                         /\ h_ck_read' = Get(loaded.value, "last_row", 0)
                         /\ i_pc' = "count"
                         /\ UNCHANGED <<conn, i_result, h_fault>>
           ELSE /\ start_row' = 0
                /\ h_ck_read' = 0
                /\ i_pc' = "count"
                /\ UNCHANGED <<conn, i_result, h_fault>>
    /\ UNCHANGED <<i_agent, i_context, total_rows, rows_ingested, rows_failed, i_consumed,
                   i_first_read, batch_df, txn, attempt, sleeps, i_runs,
                   destination, checkpoint, h_chunks, h_connects, h_ck_writes,
                   h_dest_start, h_ck_start, h_dest_chunk, h_committed, h_reinserted>>

\* _connect_with_retry of the examples: one iteration of its loop.
ConnectWithRetry ==
    /\ i_pc = "connect"
    /\ i_agent = "examples"
    /\ attempt < max_retries
    /\ \E o \in ConnectOutcomes :
         /\ h_connects' = Append(h_connects, o)
         /\ IF o = "ok"
            THEN /\ conn' = "open"
                 /\ i_pc' = "count"
                 /\ UNCHANGED <<attempt, sleeps, i_result, h_fault>>
            ELSE IF o = "OperationalError" /\ ~IsLastAttempt(attempt)
            THEN /\ sleeps' = Append(sleeps, Delay(attempt))
                 /\ attempt' = attempt + 1
                 /\ UNCHANGED <<i_pc, conn, i_result, h_fault>>
            ELSE /\ Raise(o, FALSE)
                 /\ UNCHANGED <<attempt, sleeps>>
    /\ UNCHANGED <<i_agent, i_context, start_row, total_rows, rows_ingested, rows_failed,
                   i_consumed, i_first_read, batch_df, txn, i_runs, destination,
                   checkpoint, h_chunks, h_ck_read, h_ck_writes, h_dest_start, h_ck_start,
                   h_dest_chunk, h_committed, h_reinserted>>

\* total_rows is counted; opening the source can fault.
CountRows ==
    /\ i_pc = "count"
    /\ \E o \in { Returned(count_csv_rows(i_context["source_file"].str)),
                  Raised("Permission denied") } :
         IF o.raised
         THEN /\ Raise(o.message, TRUE)
              /\ UNCHANGED total_rows
         ELSE /\ total_rows' = o.value
              /\ i_pc' = "read"
              /\ UNCHANGED <<conn, i_result, h_fault>>
    /\ UNCHANGED <<i_agent, i_context, start_row, rows_ingested, rows_failed, i_consumed,
                   i_first_read, batch_df, txn, attempt, sleeps, i_runs, destination,
                   checkpoint, h_chunks, h_connects, h_ck_read, h_ck_writes, h_dest_start, h_ck_start,
                   h_dest_chunk, h_committed, h_reinserted>>

\* pd.read_csv finds no header line in a file without lines (EmptyDataError);
\* in a file that has one, a malformed line stops the parser.
HasHeader(path) == FileLines(path) > 0

ParserFault(path) ==
    IF HasHeader(path) THEN "Error tokenizing data" ELSE "No columns to parse from file"

\* The for statement asks the reader for the next chunk: a chunk, the end of
\* the loop, or a fault of the parser.
ReadNext ==
    /\ i_pc = "read"
    /\ LET rows == DataRows(i_context["source_file"].str, start_row)
           chunksize == Get(i_context, "batch_size", batch_size_default)
       IN  \/ /\ HasHeader(i_context["source_file"].str)
              /\ ReaderYields(rows, i_consumed, i_first_read)
              /\ batch_df' = ReadChunk(rows, i_consumed, chunksize)
              /\ i_consumed' = i_consumed + Len(batch_df')
              /\ i_first_read' = FALSE
              /\ h_dest_chunk' = destination
              /\ i_pc' = IF i_agent = "roles" THEN "connect" ELSE "insert"
              /\ UNCHANGED <<conn, i_result, h_fault>>
           \/ /\ HasHeader(i_context["source_file"].str)
              /\ ~ReaderYields(rows, i_consumed, i_first_read)
              /\ i_pc' = "summary"
              /\ UNCHANGED <<batch_df, i_consumed, i_first_read, h_dest_chunk, conn,
                             i_result, h_fault>>
           \/ /\ Raise(ParserFault(i_context["source_file"].str), TRUE)
              /\ UNCHANGED <<batch_df, i_consumed, i_first_read, h_dest_chunk>>
    /\ UNCHANGED <<i_agent, i_context, start_row, total_rows, rows_ingested, rows_failed,
                   txn, attempt, sleeps, i_runs, destination, checkpoint, h_chunks,
                   h_connects, h_ck_read, h_ck_writes, h_dest_start, h_ck_start, h_committed,
                   h_reinserted>>

\* A variant of the except clause that goes on to the checkpoint update.
ChunkFailedSaves ==
    /\ rows_failed' = rows_failed + Len(batch_df)
    /\ h_chunks' = Append(h_chunks, [rows |-> batch_df, ok |-> FALSE])
    /\ i_pc' = "save"

\* A variant of the except clause that leaves the loop (break for continue).
ChunkFailedBreaks ==
    /\ rows_failed' = rows_failed + Len(batch_df)
    /\ h_chunks' = Append(h_chunks, [rows |-> batch_df, ok |-> FALSE])
    /\ i_pc' = "summary"

\* The except clause of the chunk loop (roles lines 130-133, examples lines
\* 238-241): the chunk is counted as failed and the loop goes on.
ChunkFailed ==
    /\ rows_failed' = rows_failed + Len(batch_df)
    /\ h_chunks' = Append(h_chunks, [rows |-> batch_df, ok |-> FALSE])
    /\ i_pc' = "read"

\* DatabaseTool.connect, called by insert_dataframe for every chunk: a fault
\* of psycopg2.connect is raised inside the chunk's try block.
DatabaseConnect ==
    /\ i_pc = "connect"
    /\ i_agent = "roles"
    /\ IF ~NeedsConnect(conn)
       THEN /\ i_pc' = "insert"
            /\ UNCHANGED <<conn, h_connects, rows_failed, h_chunks>>
       ELSE \E o \in ConnectOutcomes :
              /\ h_connects' = Append(h_connects, o)
              /\ IF o = "ok"
                 THEN /\ conn' = "open"
                      /\ i_pc' = "insert"
                      /\ UNCHANGED <<rows_failed, h_chunks>>
                 ELSE /\ ChunkFailed
                      /\ UNCHANGED conn
    /\ UNCHANGED <<i_agent, i_context, start_row, total_rows, rows_ingested, i_consumed,
                   i_first_read, batch_df, txn, attempt, sleeps, i_result, i_runs,
                   destination, checkpoint, h_ck_read, h_ck_writes, h_fault,
                   h_dest_start, h_ck_start, h_dest_chunk, h_committed, h_reinserted>>

\* The rows one INSERT statement adds: to_sql(method='multi') sends the whole
\* chunk in one statement, _insert_batch executes one statement per row.
StatementRows(agent, batch, done) ==
    IF agent = "roles" THEN batch ELSE << batch[Len(done) + 1] >>

\* An INSERT statement of the chunk's transaction succeeds.
InsertRows ==
    /\ i_pc = "insert"
    /\ Len(txn) < Len(batch_df)
    /\ txn' = txn \o StatementRows(i_agent, batch_df, txn)
    /\ UNCHANGED <<i_pc, i_agent, i_context, start_row, total_rows, rows_ingested,
                   rows_failed, i_consumed, i_first_read, batch_df, conn, attempt, sleeps,
                   i_result, i_runs, destination, checkpoint, h_chunks, h_connects,
                   h_ck_read, h_ck_writes, h_fault, h_dest_start, h_ck_start, h_dest_chunk,
                   h_committed, h_reinserted>>

\* A statement of the chunk's transaction, or its commit, faults: the
\* transaction is rolled back and the fault reaches the except clause.
InsertFault ==
    /\ i_pc = "insert"
    /\ destination' = Rollback(destination, txn)
    /\ txn' = <<>>
    /\ ChunkFailed
    /\ UNCHANGED <<i_agent, i_context, start_row, total_rows, rows_ingested, i_consumed,
                   i_first_read, batch_df, conn, attempt, sleeps, i_result, i_runs,
                   checkpoint, h_connects, h_ck_read, h_ck_writes, h_fault, h_dest_start, h_ck_start,
                   h_dest_chunk, h_committed, h_reinserted>>

\* if checkpoint_file: (roles line 124); the examples keep no checkpoint.
WritesCheckpoint(agent, ctx) ==
    agent = "roles" /\ Truthy(Get(ctx, "checkpoint_file", None))

\* The chunk's transaction commits; rows_ingested is advanced.
Commit ==
    /\ i_pc = "insert"
    /\ Len(txn) = Len(batch_df)
    /\ destination' = Committed(destination, txn)
    /\ txn' = <<>>
    /\ rows_ingested' = rows_ingested + Len(batch_df)
    /\ h_chunks' = Append(h_chunks, [rows |-> batch_df, ok |-> TRUE])
    /\ i_pc' = IF WritesCheckpoint(i_agent, i_context) THEN "save" ELSE "read"
    /\ h_reinserted' = IF WritesCheckpoint(i_agent, i_context)
                       THEN h_reinserted \cup (RowSet(txn) \cap h_committed)
                       ELSE h_reinserted
    /\ h_committed' = IF WritesCheckpoint(i_agent, i_context)
                      THEN h_committed \cup RowSet(txn)
                      ELSE h_committed
    /\ UNCHANGED <<i_agent, i_context, start_row, total_rows, rows_failed, i_consumed,
                   i_first_read, batch_df, conn, attempt, sleeps, i_result, i_runs,
                   checkpoint, h_connects, h_ck_read, h_ck_writes, h_fault, h_dest_start, h_ck_start,
                   h_dest_chunk>>

\* A variant of the record that leaves out the resume offset.
CheckpointRecordIngested(first, ingested) == [last_row |-> ingested]

\* {'last_row': start_row + rows_ingested}
CheckpointRecord(first, ingested) == [last_row |-> first + ingested]

\* FileTool.save_json(checkpoint_file, ..) after a committed chunk, up to
\* and including open(file_path, 'w') (lines 21-22): the directory is made and
\* the file is opened for writing, which truncates it.  mkdir or open can
\* fault (the directory or the file cannot be written), and the file is then
\* as it was.  The call is made inside the chunk's try block, so the fault
\* reaches the same except clause: rows_failed is advanced and the loop goes
\* on.
SaveCheckpoint ==
    /\ i_pc = "save"
    /\ LET data == CheckpointRecord(start_row, rows_ingested)
       IN  \/ /\ checkpoint' = EmptyFile
              /\ i_pc' = "write"
              /\ UNCHANGED <<h_ck_writes, rows_failed>>
           \/ /\ UNCHANGED checkpoint
              /\ h_ck_writes' = Append(h_ck_writes, [last_row |-> data["last_row"], ok |-> FALSE])
              /\ rows_failed' = rows_failed + Len(batch_df)
              /\ i_pc' = "read"
    /\ UNCHANGED <<i_agent, i_context, start_row, total_rows, rows_ingested,
                   i_consumed, i_first_read, batch_df, txn, conn, attempt, sleeps,
                   i_result, i_runs, destination, h_chunks, h_connects, h_ck_read,
                   h_fault, h_dest_start, h_ck_start, h_dest_chunk, h_committed,
                   h_reinserted>>

\* The rest of FileTool.save_json (lines 22-23): json.dump writes the document
\* into the opened file and the with statement closes it.  When the write
\* faults (the disk is full) the truncated file is left without a document,
\* and the fault reaches the chunk's except clause.
DumpCheckpoint ==
    /\ i_pc = "write"
    /\ LET data == CheckpointRecord(start_row, rows_ingested)
       IN  \/ /\ checkpoint' = data
              /\ h_ck_writes' = Append(h_ck_writes, [last_row |-> data["last_row"], ok |-> TRUE])
              /\ UNCHANGED rows_failed
           \/ /\ UNCHANGED checkpoint
              /\ h_ck_writes' = Append(h_ck_writes, [last_row |-> data["last_row"], ok |-> FALSE])
              /\ rows_failed' = rows_failed + Len(batch_df)
    /\ i_pc' = "read"
    /\ UNCHANGED <<i_agent, i_context, start_row, total_rows, rows_ingested,
                   i_consumed, i_first_read, batch_df, txn, conn, attempt, sleeps,
                   i_result, i_runs, destination, h_chunks, h_connects, h_ck_read,
                   h_fault, h_dest_start, h_ck_start, h_dest_chunk, h_committed,
                   h_reinserted>>

\* The loop is over: _execute returns the statistics and execute() wraps them.
Summarize ==
    /\ i_pc = "summary"
    /\ i_result' = IngestionSuccessResult(i_agent, i_context,
                       IngestionSummary(i_context, <<total_rows, rows_ingested, rows_failed>>))
    /\ conn' = ConnAtExit(i_agent, conn)
    /\ i_pc' = "done"
    /\ UNCHANGED <<i_agent, i_context, start_row, total_rows, rows_ingested, rows_failed,
                   i_consumed, i_first_read, batch_df, txn, attempt, sleeps, i_runs,
                   destination, checkpoint, h_chunks, h_connects, h_ck_read, h_ck_writes,
                   h_fault, h_dest_start, h_ck_start, h_dest_chunk, h_committed, h_reinserted>>

\* The caller receives the result.
IngestReturn ==
    /\ i_pc = "done"
    /\ i_pc' = "idle"
    /\ UNCHANGED <<i_agent, i_context, start_row, total_rows, rows_ingested, rows_failed,
                   i_consumed, i_first_read, batch_df, txn, conn, attempt, sleeps,
                   i_result, i_runs, destination, checkpoint, h_chunks, h_connects,
                   h_ck_read, h_ck_writes, h_fault, h_dest_start, h_ck_start, h_dest_chunk,
                   h_committed, h_reinserted>>

\* The process is killed between two operations of a call: the agent object
\* and its connection are gone, the server discards the open transaction;
\* the table and the checkpoint file stay as they are, the file without a
\* document when the kill falls between save_json's open and its write.
Interrupt ==
    /\ i_pc \notin {"idle", "done"}
    /\ i_pc' = "idle"
    /\ conn' = "none"
    /\ destination' = Rollback(destination, txn)
    /\ txn' = <<>>
    /\ UNCHANGED <<i_agent, i_context, start_row, total_rows, rows_ingested, rows_failed,
                   i_consumed, i_first_read, batch_df, attempt, sleeps, i_result, i_runs,
                   checkpoint, h_chunks, h_connects, h_ck_read, h_ck_writes, h_fault,
                   h_dest_start, h_ck_start, h_dest_chunk, h_committed, h_reinserted>>

-----------------------------------------------------------------------------
(* agents/orchestrator.py: WorkflowOrchestrator.ingest_sample_data, which   *)
(* drives the crew of agents/crews through run_ingestion_only               *)

\* The list tables (lines 119-123): file name and target table.
tables ==
    << [csv_file |-> "patients.csv", table_name |-> "raw.patients"],
       [csv_file |-> "icustays.csv", table_name |-> "raw.icustays"],
       [csv_file |-> "chartevents.csv", table_name |-> "raw.chartevents"] >>

\* data_dir / csv_file
SampleFile(csv_file) == "data/sample/" \o csv_file

\* The characters kept of a table name of the list.
TableChars(table_name) ==
    CASE table_name = "raw.patients" -> << "r", ".", "p" >>
      [] table_name = "raw.icustays" -> << "r", ".", "i" >>
      [] table_name = "raw.chartevents" -> << "r", ".", "c" >>

\* What the kickoff made by run_ingestion_only can do: the agent's
\* execution and the report kickoff() builds from it (the context holds
\* the ingestion task only, so the other two task blocks are skipped).
run_ingestion_only(source_file, target_table) ==
    LET ctx == [source_file |-> Str(source_file), target_table |-> Str(TableChars(target_table))]
    IN  { [execution |-> e,
           report |->
              LET results == [t \in {"ingestion"} |-> ResultDict("crews", e.result)]
              IN  IF TaskAborts("ingestion", e.result)
                  THEN FailureReport("crews", "ingestion", FailureReason("ingestion"), results)
                  ELSE SuccessReport("crews", results)] :
            e \in AgentExecutions("crews", "ingestion", ctx) }

SampleInit ==
    /\ s_pc = "ready"
    /\ s_index = 1
    /\ s_results = EmptyDict
    /\ s_report = None
    /\ s_calls = 0

\* ingest_sample_data() is entered (lines 100-117): without the sample
\* directory it returns a failed report at once.
IngestSampleData ==
    /\ s_pc = "ready"
    /\ s_calls < MaxSampleCalls
    /\ s_calls' = s_calls + 1
    /\ s_results' = EmptyDict
    /\ s_index' = 1
    /\ \E dir_exists \in BOOLEAN :
         IF ~dir_exists
         THEN /\ s_report' = [status |-> "failed", error |-> "Sample data not found"]
              /\ s_pc' = "done"
         ELSE /\ s_report' = None
              /\ s_pc' = "tables"
    /\ UNCHANGED crew_vars

\* One iteration of the for loop (lines 127-141): a table whose file is
\* missing is skipped, else its crew report is stored under the table name.
SampleTable ==
    /\ s_pc = "tables"
    /\ s_index <= Len(tables)
    /\ s_index' = s_index + 1
    /\ \E file_exists \in BOOLEAN :
         IF ~file_exists
         THEN UNCHANGED <<s_results, crew_vars>>
         ELSE \E run \in run_ingestion_only(SampleFile(tables[s_index].csv_file),
                                            tables[s_index].table_name) :
                /\ s_results' = [t \in (DOMAIN s_results) \cup {tables[s_index].table_name} |->
                                    IF t = tables[s_index].table_name THEN run.report
                                    ELSE s_results[t]]
                /\ crew_agent_status' =
                       [crew_agent_status EXCEPT !["crews"]["ingestion"] = run.execution.status]
                /\ crew_agent_history' =
                       [crew_agent_history EXCEPT !["crews"]["ingestion"] =
                            Append(@, run.execution.result)]
                /\ UNCHANGED <<k_pc, k_crew, k_context, k_keys, k_results, k_report,
                               k_invoked, k_kickoffs>>
    /\ UNCHANGED <<s_pc, s_report, s_calls>>

\* The return after the loop (lines 143-147).
SampleFinish ==
    /\ s_pc = "tables"
    /\ s_index > Len(tables)
    /\ s_report' = [status |-> "success",
                    tables_ingested |-> Cardinality(DOMAIN s_results),
                    results |-> s_results]
    /\ s_pc' = "done"
    /\ UNCHANGED <<s_index, s_results, s_calls, crew_vars>>

\* The caller receives the report.
SampleReturn ==
    /\ s_pc = "done"
    /\ s_pc' = "ready"
    /\ UNCHANGED <<s_index, s_results, s_report, s_calls, crew_vars>>

-----------------------------------------------------------------------------
Init == AgentInit /\ CrewInit /\ OrchestratorInit /\ IngestionInit /\ SampleInit

\* One agent driven directly by a caller.
Next ==
    \/ (\E ctx \in Contexts(agent_kind) : ExecuteEnter(ctx)) /\ UNCHANGED <<crew_vars, orch_vars, ingest_vars, sample_vars>>
    \/ ExecuteValidate /\ UNCHANGED <<crew_vars, orch_vars, ingest_vars, sample_vars>>
    \/ ExecuteCore /\ UNCHANGED <<crew_vars, orch_vars, ingest_vars, sample_vars>>
    \/ ExecuteReturn /\ UNCHANGED <<crew_vars, orch_vars, ingest_vars, sample_vars>>
    \/ Reset /\ UNCHANGED <<crew_vars, orch_vars, ingest_vars, sample_vars>>

Spec == Init /\ [][Next]_vars

\* The two crews driven by a caller.
CrewStep ==
    \/ (\E crew \in Crews, ctx \in CrewContexts : Kickoff(crew, ctx)) /\ UNCHANGED <<agent_vars, orch_vars, ingest_vars, sample_vars>>
    \/ (\E task \in Tasks : KickoffTask(task)) /\ UNCHANGED <<agent_vars, orch_vars, ingest_vars, sample_vars>>
    \/ KickoffFinish /\ UNCHANGED <<agent_vars, orch_vars, ingest_vars, sample_vars>>
    \/ KickoffReturn /\ UNCHANGED <<agent_vars, orch_vars, ingest_vars, sample_vars>>

\* The crews and the orchestrator do not use the directly driven agent.
InitFixedAgent == Init /\ agent_kind = "ingestion"

CrewSpec == InitFixedAgent /\ [][CrewStep]_vars

\* The orchestrator driven by a caller.
OrchestratorStep ==
    \/ ExecuteWorkflow /\ UNCHANGED <<agent_vars, crew_vars, ingest_vars, sample_vars>>
    \/ RunDataPipelineCrew /\ UNCHANGED <<agent_vars, crew_vars, ingest_vars, sample_vars>>
    \/ RunMLDevelopmentCrew /\ UNCHANGED <<agent_vars, crew_vars, ingest_vars, sample_vars>>
    \/ RunDeploymentCrew /\ UNCHANGED <<agent_vars, crew_vars, ingest_vars, sample_vars>>
    \/ WorkflowReturn /\ UNCHANGED <<agent_vars, crew_vars, ingest_vars, sample_vars>>

OrchestratorSpec == InitFixedAgent /\ [][OrchestratorStep]_vars

\* The ingestion agents driven by a caller that may be killed at any point.
IngestStep ==
    \/ (\E agent \in Ingestors, ctx \in IngestionCallContexts : IngestExecute(agent, ctx)) /\ UNCHANGED <<agent_vars, crew_vars, orch_vars, sample_vars>>
    \/ LoadCheckpoint /\ UNCHANGED <<agent_vars, crew_vars, orch_vars, sample_vars>>
    \/ ConnectWithRetry /\ UNCHANGED <<agent_vars, crew_vars, orch_vars, sample_vars>>
    \/ CountRows /\ UNCHANGED <<agent_vars, crew_vars, orch_vars, sample_vars>>
    \/ ReadNext /\ UNCHANGED <<agent_vars, crew_vars, orch_vars, sample_vars>>
    \/ DatabaseConnect /\ UNCHANGED <<agent_vars, crew_vars, orch_vars, sample_vars>>
    \/ InsertRows /\ UNCHANGED <<agent_vars, crew_vars, orch_vars, sample_vars>>
    \/ InsertFault /\ UNCHANGED <<agent_vars, crew_vars, orch_vars, sample_vars>>
    \/ Commit /\ UNCHANGED <<agent_vars, crew_vars, orch_vars, sample_vars>>
    \/ SaveCheckpoint /\ UNCHANGED <<agent_vars, crew_vars, orch_vars, sample_vars>>
    \/ DumpCheckpoint /\ UNCHANGED <<agent_vars, crew_vars, orch_vars, sample_vars>>
    \/ Summarize /\ UNCHANGED <<agent_vars, crew_vars, orch_vars, sample_vars>>
    \/ IngestReturn /\ UNCHANGED <<agent_vars, crew_vars, orch_vars, sample_vars>>
    \/ Interrupt /\ UNCHANGED <<agent_vars, crew_vars, orch_vars, sample_vars>>

IngestSpec == InitFixedAgent /\ [][IngestStep]_vars

\* reset() applied to an agent object in any state of its fields: status is
\* a public attribute that takes any value of AgentStatus, the history any
\* list of results of earlier calls.
ResetHistoryEntries(kind) ==
    { FaultResult("No columns to parse from file"),
      ValidationFailedResult(ValidationFailure(<< "Missing required field: source_file" >>)),
      SuccessResult(AgentName(kind), EmptyDict, EmptyDict) }

ResetHistories(kind) ==
    UNION { [1..n -> ResetHistoryEntries(kind)] : n \in 0..MaxCalls }

ResetInit ==
    /\ agent_kind \in AgentKinds
    /\ agent_fields = AgentFields(agent_kind)
    /\ status \in AgentStatus
    /\ execution_history \in ResetHistories(agent_kind)
    /\ pc = "ready"
    /\ context = EmptyDict
    /\ validation = NotValidated
    /\ core_calls = 0
    /\ fault = <<>>
    /\ result = NoResult
    /\ escaped = FALSE
    /\ returned = <<>>
    /\ h_reset = None
    /\ CrewInit /\ OrchestratorInit /\ IngestionInit /\ SampleInit

ResetStep ==
    \/ Reset /\ UNCHANGED <<crew_vars, orch_vars, ingest_vars, sample_vars>>

ResetSpec == ResetInit /\ [][ResetStep]_vars

\* The orchestrator of agents/orchestrator.py ingesting the sample data.
SampleStep ==
    \/ IngestSampleData /\ UNCHANGED <<agent_vars, orch_vars, ingest_vars>>
    \/ SampleTable /\ UNCHANGED <<agent_vars, orch_vars, ingest_vars>>
    \/ SampleFinish /\ UNCHANGED <<agent_vars, orch_vars, ingest_vars>>
    \/ SampleReturn /\ UNCHANGED <<agent_vars, orch_vars, ingest_vars>>

SampleSpec == InitFixedAgent /\ [][SampleStep]_vars

-----------------------------------------------------------------------------
(* Properties of BaseAgent.execute *)

ValidationInvalid ==
    /\ validation # NotValidated
    /\ ~validation.raised
    /\ ~validation.value.is_valid

\* C1: when validate_inputs returns an invalid outcome, execute returns a
\* result with status Failed, output None and the validation errors, and
\* _execute is not invoked during that call.
C1_ValidationGate ==
    (pc = "returned" /\ ValidationInvalid) =>
        /\ result.status = FAILED
        /\ result.output = None
        /\ result.errors = validation.value.errors
        /\ core_calls = 0

C1_Witness ==
    /\ pc = "returned"
    /\ ValidationInvalid
    /\ Len(validation.value.errors) = 2
    /\ result.status = FAILED

\* C2: every call of execute appends exactly one entry to execution_history,
\* the result it returns; without reset the history is the sequence of the
\* returned results in call order.
C2_ExactlyOnceRecording ==
    /\ pc \in {"ready", "validate", "core"} => execution_history = returned
    /\ pc = "returned" => execution_history = Append(returned, result)

C2_Witness ==
    /\ pc = "returned"
    /\ Len(execution_history) = 2
    /\ execution_history[1].status = FAILED
    /\ execution_history[2].status = SUCCESS
    /\ execution_history[2] = result

\* C3: a fault raised by validate_inputs or by _execute never escapes
\* execute: it comes back as a result with status Failed, output None and
\* errors = [the fault's message].
C3_NoFaultEscapes ==
    /\ ~escaped
    /\ (pc = "returned" /\ fault # <<>>) =>
          /\ result # NoResult
          /\ result.status = FAILED
          /\ result.output = None
          /\ result.errors = fault

C3_Witness ==
    /\ pc = "returned"
    /\ core_calls = 1
    /\ fault = << "division by zero" >>
    /\ result.status = FAILED

\* C4: the status goes Idle -> Running -> {Success | Failed}: it is Running
\* while execute is in progress, and when execute returns it is the status
\* of the returned result, Failed after a validation failure or a fault and
\* Success otherwise; it is never left Running and is never Paused.
C4_StatusStateMachine ==
    /\ status # PAUSED
    /\ pc \in {"validate", "core"} => status = RUNNING
    /\ pc = "ready" => status \in {IDLE, SUCCESS, FAILED}
    /\ pc = "returned" =>
          /\ status \in {SUCCESS, FAILED}
          /\ status = result.status
          /\ (status = FAILED) <=> (ValidationInvalid \/ fault # <<>>)

C4_Witness ==
    /\ pc = "returned"
    /\ status = SUCCESS
    /\ Len(execution_history) = 2
    /\ execution_history[1].status = FAILED

\* C5: every result execute produces has status Success iff its errors list
\* is empty; a Failed result carries a non-empty errors list, whether it
\* comes from a validation failure or from a caught fault.
C5_SuccessIffNoErrors ==
    /\ \A i \in DOMAIN execution_history :
          (execution_history[i].status = SUCCESS) <=> (execution_history[i].errors = <<>>)
    /\ result # NoResult => ((result.status = SUCCESS) <=> (result.errors = <<>>))

C5_Witness ==
    /\ pc = "returned"
    /\ ValidationInvalid
    /\ result.status = FAILED
    /\ result.errors = << "Missing required field: table_name" >>

-----------------------------------------------------------------------------
(* Properties of DataPipelineCrew.kickoff *)

\* The tasks executed so far in this kickoff whose result is not a success.
FailedInvocations ==
    { i \in DOMAIN k_invoked : k_results[k_invoked[i]].status # SUCCESS }

\* C6: in the crew of agents/crews, once a task's agent returns a result
\* that is not a success no later task's agent is invoked, and the report has
\* status 'failed', failed_at = that task and results for exactly the tasks
\* executed up to and including it.
C6_CrewFailFast ==
    k_crew = "crews" =>
        \A i \in FailedInvocations :
            /\ i = Len(k_invoked)
            /\ k_pc \in {"done", "ready"}
            /\ k_report # None
            /\ k_report.status = "failed"
            /\ "failed_at" \in DOMAIN k_report
            /\ k_report.failed_at = k_invoked[i]
            /\ DOMAIN k_report.results = { k_invoked[j] : j \in 1..i }

C6_Witness ==
    /\ k_crew = "crews"
    /\ k_pc = "done"
    /\ DOMAIN k_context = Tasks
    /\ k_invoked = << "ingestion", "transformation" >>
    /\ k_results["ingestion"].status = SUCCESS
    /\ k_results["transformation"].status = FAILED
    /\ k_report.failed_at = "transformation"

\* The overall_score of a quality output is below 0.90: the agent of
\* agents/crews holds the double it computed, the examples' agent its literal.
ScoreBelowThreshold(crew, output) ==
    IF crew = "crews"
    THEN DoubleLess(Get(output, "overall_score", DoubleZero),
                    Double(QualityThreshold[1], QualityThreshold[2]))
    ELSE FracLess(Get(output, "overall_score", Zero), QualityThreshold)

\* C7: when the quality task's agent returns Success with an overall_score
\* below 0.90, kickoff reports status 'failed' with failed_at = 'quality'.
C7_QualityPostCondition ==
    ( /\ k_pc = "done"
      /\ "quality" \in DOMAIN k_results
      /\ k_results["quality"].status = SUCCESS
      /\ ScoreBelowThreshold(k_crew, k_results["quality"].output) )
    => /\ k_report.status = "failed"
       /\ "failed_at" \in DOMAIN k_report
       /\ k_report.failed_at = "quality"

-----------------------------------------------------------------------------
(* Properties of WorkflowOrchestrator.execute_workflow *)

\* The results the call in progress (or the last call) appended, in order.
CallResults == SubSeq(o_execution_history, o_first + 1, Len(o_execution_history))

\* The crews up to and including the n-th of the fixed sequence.
CrewPrefix(n) == SubSeq(CrewOrder, 1, n)

\* A successful result of crew 1 or crew 2 that does not pass its gate.
BelowGate(r) ==
    /\ r.status = CREW_SUCCESS
    /\ \/ /\ r.crew_name = "DataPipelineCrew"
          /\ FracLess(Get(r.output, "quality_score", Zero), DataQualityGate)
       \/ /\ r.crew_name = "MLDevelopmentCrew"
          /\ FracLess(Get(r.output, "auroc", Zero), ModelPerformanceGate)

\* C8: when the data-pipeline crew succeeds with quality_score below 0.90, or
\* the model-development crew succeeds with auroc below 0.80, the workflow
\* stops with workflow_status 'partial_success', no later crew is invoked, and
\* the gated crew is recorded with status success (the call records no
\* failed crew).
C8_DecisionGates ==
    \A i \in DOMAIN CallResults :
        BelowGate(CallResults[i]) =>
            /\ i = Len(CallResults)
            /\ o_pc \in {"done", "ready"}
            /\ o_invoked = CrewPrefix(i)
            /\ o_summary # None
            /\ o_summary.workflow_status = "partial_success"
            /\ o_summary.crew_results[Len(o_execution_history)].status = "success"
            /\ o_summary.crew_results[Len(o_execution_history)].crew_name = CrewOrder[i]
            /\ \A j \in DOMAIN CallResults : CallResults[j].status = CREW_SUCCESS

C8_Witness ==
    /\ o_pc = "done"
    /\ o_invoked = << "DataPipelineCrew", "MLDevelopmentCrew" >>
    /\ BelowGate(CallResults[2])
    /\ o_summary.workflow_status = "partial_success"

\* C9: if a crew's status is not success the workflow reports 'failed', the
\* failed crew's result is the last entry of the crew results, and no later
\* crew of the sequence is invoked.
C9_AbortOnFailure ==
    \A i \in DOMAIN CallResults :
        CallResults[i].status # CREW_SUCCESS =>
            /\ i = Len(CallResults)
            /\ o_pc \in {"done", "ready"}
            /\ o_invoked = CrewPrefix(i)
            /\ o_summary # None
            /\ o_summary.workflow_status = "failed"
            /\ o_summary.crew_results[Len(o_summary.crew_results)] = crew_to_dict(CallResults[i])
            /\ CallResults[i].crew_name = CrewOrder[i]

C9_Witness ==
    /\ o_pc = "done"
    /\ o_invoked = << "DataPipelineCrew", "MLDevelopmentCrew" >>
    /\ CallResults[2].status = CREW_FAILED
    /\ o_summary.workflow_status = "failed"

\* C10: the reported workflow_status is one of success, partial_success and
\* failed, and it is 'success' iff the three crews were executed in the order
\* data-pipeline, model-development, deployment, each with status success,
\* and both gates passed.
C10_SuccessIffAllCrewsPass ==
    o_pc = "done" =>
        /\ o_summary.workflow_status \in {"success", "partial_success", "failed"}
        /\ (o_summary.workflow_status = "success") <=>
              /\ o_invoked = CrewOrder
              /\ Len(CallResults) = 3
              /\ \A i \in DOMAIN CallResults :
                    /\ CallResults[i].crew_name = CrewOrder[i]
                    /\ CallResults[i].status = CREW_SUCCESS
                    /\ ~BelowGate(CallResults[i])

C10_Witness ==
    /\ o_pc = "done"
    /\ o_summary.workflow_status = "success"
    /\ o_invoked = CrewOrder
    /\ o_first = 3

-----------------------------------------------------------------------------
(* Properties of the checkpointed batch ingestor *)

\* The call in progress (or just finished) had a checkpoint file configured
\* on the agent that keeps one.
CheckpointConfigured == WritesCheckpoint(i_agent, i_context)

\* C11: a call with the checkpoint file configured never commits a data row
\* that an earlier call with the same source and the same checkpoint file
\* had already committed to the destination.
C11_NoReprocessing == h_reinserted = {}

\* The rows of the chunks of a log, in the order they were handed out.
RECURSIVE ChunkRows(_)
ChunkRows(log) ==
    IF log = <<>> THEN <<>> ELSE log[1].rows \o ChunkRows(Tail(log))

AllInserted(log) == \A i \in DOMAIN log : log[i].ok

\* No checkpoint write of a log faulted.
AllWritten(writes) == \A i \in DOMAIN writes : writes[i].ok

\* The chunks of a log that hold at least one row.
NonEmptyChunks(log) == SelectSeq(log, LAMBDA c : c.rows # <<>>)

\* ceil(n / d) for n >= 0 and d > 0
CeilDiv(n, d) == (n + d - 1) \div d

\* C12: a call of the agent of agents/roles that starts from a resume offset
\* k = start_row with 0 <= k <= total_rows (k = 0 without a checkpoint) and
\* whose chunks are all inserted reads exactly the data rows k+1 .. total_rows
\* in consecutive chunks of batch_size rows (the last one possibly shorter,
\* ceil((total_rows - k) / batch_size) chunks in all), returns rows_ingested =
\* total_rows - k and, when a checkpoint file is configured, leaves last_row =
\* total_rows in it.
C12_ResumeCorrectness ==
    (/\ i_pc = "done"
     /\ i_agent = "roles"
     /\ h_fault = ""
     /\ AllInserted(h_chunks)
     /\ AllWritten(h_ck_writes)
     /\ start_row <= total_rows)
    => LET chunksize == Get(i_context, "batch_size", batch_size_default)
           read == NonEmptyChunks(h_chunks)
       IN  /\ start_row = (IF CheckpointConfigured THEN h_ck_read ELSE 0)
           /\ ChunkRows(h_chunks) = [ i \in 1 .. total_rows - start_row |-> start_row + i ]
           /\ Len(read) = CeilDiv(total_rows - start_row, chunksize)
           /\ \A i \in DOMAIN read :
                 IF i < Len(read) THEN Len(read[i].rows) = chunksize
                 ELSE Len(read[i].rows) <= chunksize
           /\ is_success(i_result)
           /\ i_result.output["rows_ingested"] = total_rows - start_row
           /\ CheckpointConfigured => checkpoint = [last_row |-> total_rows]

\* A resumed call that skipped a row and inserted the rest in two chunks.
C12_Witness ==
    /\ i_pc = "done"
    /\ i_agent = "roles"
    /\ start_row = 1
    /\ checkpoint = [last_row |-> total_rows]
    /\ Len(h_chunks) = 2
    /\ AllInserted(h_chunks)
    /\ is_success(i_result)
    /\ i_result.output["rows_ingested"] = 2

\* The number of rows of the chunks of a log whose insertion ended as ok.
RECURSIVE RowsOf(_, _)
RowsOf(log, ok) ==
    IF log = <<>> THEN 0
    ELSE (IF log[1].ok = ok THEN Len(log[1].rows) ELSE 0) + RowsOf(Tail(log), ok)

\* The faults that are not faults of a chunk's insertion: loading the
\* checkpoint, counting or reading the source, and the examples' connection
\* before the loop.
OtherFaults ==
    { "Permission denied", "Error tokenizing data", "No columns to parse from file",
      JSONDecodeError }
        \cup ConnectOutcomes

\* C13: a call from offset 0 in which only chunk insertions fault (no fault of
\* counting or reading the source or of a checkpoint write) hands every
\* chunk of the source to the insertion, in order; rows_failed is the number
\* of rows of the chunks whose insertion faulted, rows_ingested that of the
\* others, their sum is total_rows, and execute() returns Success.
C13_BatchIsolation ==
    (/\ i_pc = "done"
     /\ start_row = 0
     /\ h_fault \notin OtherFaults
     /\ AllWritten(h_ck_writes))
    => /\ ChunkRows(h_chunks) = [ i \in 1 .. total_rows |-> i ]
       /\ is_success(i_result)
       /\ i_result.output["rows_failed"] = RowsOf(h_chunks, FALSE)
       /\ i_result.output["rows_ingested"] = RowsOf(h_chunks, TRUE)
       /\ i_result.output["rows_ingested"] + i_result.output["rows_failed"]
              = i_result.output["total_rows"]
       /\ i_result.output["total_rows"] = total_rows

\* Chunk 2 of 3 faulted, chunks 1 and 3 were inserted.
C13_Witness ==
    /\ i_pc = "done"
    /\ start_row = 0
    /\ is_success(i_result)
    /\ Len(h_chunks) = 3
    /\ h_chunks[1].ok /\ ~h_chunks[2].ok /\ h_chunks[3].ok
    /\ i_result.output["rows_failed"] = 1

\* C14: _connect_with_retry makes at most max_retries attempts and retries
\* only after a transient fault (OperationalError); it sleeps once after each
\* failed attempt but the last possible one, for 2^0, 2^1, ... seconds; an
\* attempt that succeeds returns the open connection, and when attempt
\* max_retries fails the last fault is propagated without a further sleep.
C14_ConnectionRetry ==
    (i_agent = "examples" /\ h_connects # <<>>)
    => LET n == Len(h_connects)
           last == h_connects[n]
       IN  /\ n <= max_retries
           /\ \A i \in 1 .. n - 1 : h_connects[i] = "OperationalError"
           /\ Len(sleeps) = (IF last = "OperationalError" /\ n < max_retries THEN n ELSE n - 1)
           /\ \A i \in DOMAIN sleeps : sleeps[i] = 2 ^ (i - 1)
           /\ (last = "ok" /\ i_pc = "count") => conn = "open"
           /\ (last = "OperationalError" /\ n = max_retries /\ i_pc = "done")
                  => /\ h_fault = "OperationalError"
                     /\ i_result = ExampleAgentResult(FAILED, None, << "OperationalError" >>)

\* Two transient faults, two sleeps of 1 and 2 seconds, then a connection.
C14_Witness ==
    /\ i_agent = "examples"
    /\ h_connects = << "OperationalError", "OperationalError", "ok" >>
    /\ sleeps = << 1, 2 >>
    /\ i_pc = "count"
    /\ conn = "open"

\* Every connection attempt of the call failed (and at least one was made).
NeverConnected ==
    /\ h_connects # <<>>
    /\ \A i \in DOMAIN h_connects : h_connects[i] # "ok"

\* C15: when no connection attempt of an ingestion call succeeds, execute()
\* returns a Failed result with a non-empty errors list, on both agents, and
\* the destination is as it was when the call began.
C15_FatalConnectivityFailure ==
    (i_pc = "done" /\ NeverConnected)
    => /\ i_result.status = FAILED
       /\ i_result.errors # <<>>
       /\ destination = h_dest_start

\* C16: by the time execute() has returned, on every exit path and on both
\* agents, no connection opened for the destination is still open.
C16_ConnectionRelease == i_pc \in {"done", "idle"} => conn # "open"

\* The chunks of a log whose insertion succeeded.
InsertedChunks(log) == SelectSeq(log, LAMBDA c : c.ok)

\* The positions of a call at which no checkpoint write is pending.
BetweenChunks == {"read", "connect", "insert", "summary", "done"}

\* C17: with a checkpoint file configured, by the time the next chunk is read
\* or inserted (or the loop ends) save_json has been called once for every
\* chunk inserted so far, each time with last_row = start_row + rows_ingested
\* counted up to and including that chunk, and the file holds the value of
\* the last call unless that write itself faulted; a chunk whose
\* insertion faulted caused no write, and without a checkpoint file nothing
\* is written.
C17_CheckpointWriteOrdering ==
    (i_agent = "roles" /\ i_pc \in BetweenChunks)
    => LET inserted == InsertedChunks(h_chunks)
       IN  IF CheckpointConfigured
           THEN /\ Len(h_ck_writes) = Len(inserted)
                /\ \A j \in DOMAIN h_ck_writes :
                      h_ck_writes[j].last_row
                          = start_row + RowsOf(SubSeq(inserted, 1, j), TRUE)
                /\ (inserted # <<>> /\ h_ck_writes[Len(h_ck_writes)].ok)
                      => checkpoint = [last_row |-> start_row + rows_ingested]
           ELSE h_ck_writes = <<>>

\* A faulted chunk, then an inserted one whose checkpoint write is done
\* before the next chunk is read.
C17_Witness ==
    /\ i_agent = "roles"
    /\ CheckpointConfigured
    /\ i_pc = "read"
    /\ Len(h_chunks) = 2
    /\ ~h_chunks[1].ok /\ h_chunks[2].ok
    /\ h_ck_writes = << [last_row |-> 1, ok |-> TRUE] >>
    /\ checkpoint = [last_row |-> 1]

\* The checkpoint writes of a log that did not fault.
Written(writes) == SelectSeq(writes, LAMBDA w : w.ok)

\* C18: within one call the value of last_row never decreases: every
\* checkpoint write stores a value that is at least the value read when the
\* call began and at least every value written earlier in the call, and a
\* document the file holds outside save_json is the value written last.
C18_CheckpointMonotonic ==
    (i_agent = "roles" /\ Written(h_ck_writes) # <<>>)
    => LET written == Written(h_ck_writes)
       IN  /\ \A j \in DOMAIN written :
                 /\ written[j].last_row >= h_ck_read
                 /\ \A i \in 1 .. j - 1 : written[i].last_row <= written[j].last_row
           /\ checkpoint # EmptyFile
                 => checkpoint = [last_row |-> written[Len(written)].last_row]

\* A resumed call that wrote the checkpoint twice.
C18_Witness ==
    /\ i_agent = "roles"
    /\ h_ck_read = 1
    /\ h_ck_writes = << [last_row |-> 2, ok |-> TRUE], [last_row |-> 3, ok |-> TRUE] >>
    /\ checkpoint = [last_row |-> 3]

\* C19: a chunk is inserted all or nothing, by insert_dataframe and by
\* _insert_batch: the destination always holds either none or all of the
\* rows of the chunk in hand on top of what it held when the chunk was read;
\* once the chunk's insertion has faulted it holds none of them, once it has
\* succeeded all of them.
C19_AllOrNothing ==
    /\ destination \in { h_dest_chunk, Committed(h_dest_chunk, batch_df) }
    /\ i_pc \in {"connect", "insert"} => destination = h_dest_chunk
    /\ (i_pc \in {"save", "write", "read", "summary"} /\ h_chunks # <<>>)
          => LET last == h_chunks[Len(h_chunks)]
             IN  /\ last.rows = batch_df
                 /\ destination = (IF last.ok THEN Committed(h_dest_chunk, batch_df)
                                    ELSE h_dest_chunk)

\* The examples' agent inserted a chunk of two rows and the insertion of the
\* next chunk faulted: the table holds the first chunk only.
C19_Witness ==
    /\ i_agent = "examples"
    /\ i_pc = "read"
    /\ Len(h_chunks) = 2
    /\ h_chunks[1].ok /\ Len(h_chunks[1].rows) = 2
    /\ ~h_chunks[2].ok /\ Len(h_chunks[2].rows) = 1
    /\ destination = Committed(NoRow, h_chunks[1].rows)

-----------------------------------------------------------------------------
(* Properties of DataPipelineCrew.kickoff, continued *)

\* The tasks whose agent was executed by the kickoff() in progress.
InvokedTasks == { k_invoked[i] : i \in DOMAIN k_invoked }

\* C20: a task whose key is absent from the context passed to kickoff() is
\* skipped: its agent's execute() is not called and neither the results nor
\* the report holds an entry under its key; a context with no task key
\* yields the report {status: 'success', results: {}}.
C20_AbsentTaskSkipped ==
    /\ \A task \in Tasks \ DOMAIN k_context :
          /\ task \notin InvokedTasks
          /\ task \notin DOMAIN k_results
          /\ k_report # None => task \notin DOMAIN k_report.results
    /\ (k_pc = "done" /\ DOMAIN k_context = {})
          => /\ k_report.status = "success"
             /\ k_report.results = EmptyDict
             /\ k_invoked = <<>>

\* A kickoff() whose context held the quality task only has finished.
C20_Witness ==
    /\ k_pc = "done"
    /\ DOMAIN k_context = {"quality"}
    /\ k_invoked = << "quality" >>
    /\ DOMAIN k_report.results = {"quality"}

\* The tasks of the context whose block precedes the given position.
PresentBefore(n) == { t \in Tasks \cap DOMAIN k_context : TaskIndex(t) < n }

\* C21: whatever the insertion order of the context's keys, kickoff() invokes
\* the agents of the tasks present in the context in the fixed order
\* ingestion, transformation, quality: the invocations made so far are
\* exactly the present tasks whose block was passed, in that order, and each
\* has returned its result (stored in results) before the next one begins;
\* a kickoff that ends in success has invoked every present task.
C21_FixedTaskOrder ==
    /\ \A i, j \in DOMAIN k_invoked :
          i < j => TaskIndex(k_invoked[i]) < TaskIndex(k_invoked[j])
    /\ DOMAIN k_results = InvokedTasks
    /\ k_pc \in Tasks => InvokedTasks = PresentBefore(TaskIndex(k_pc))
    /\ k_pc = "finish" => InvokedTasks = Tasks \cap DOMAIN k_context
    /\ (k_pc = "done" /\ k_report.status = "success")
          => InvokedTasks = Tasks \cap DOMAIN k_context
    /\ (k_pc = "done" /\ k_report.status = "failed")
          => InvokedTasks = PresentBefore(TaskIndex(k_invoked[Len(k_invoked)]) + 1)

\* A context whose keys were inserted in the reverse of the task order; all
\* three agents ran, in task order.
C21_Witness ==
    /\ k_pc = "done"
    /\ k_keys = << "quality", "transformation", "ingestion" >>
    /\ k_invoked = << "ingestion", "transformation", "quality" >>
    /\ k_report.status = "success"

\* C22: in every report a crew's kickoff() returns, the key failed_at is
\* present if and only if status is 'failed', and when present it names a
\* task that has an entry in results; for the crew of agents/crews and the
\* crew of agents/examples.
C22_FailedAtIffFailed ==
    "status" \in DOMAIN k_report =>
        /\ "failed_at" \in DOMAIN k_report <=> k_report.status = "failed"
        /\ "failed_at" \in DOMAIN k_report =>
               k_report.failed_at \in DOMAIN k_report.results

\* A table name that encodes a two-part namespace 'schema.table'.
TwoPart(name) ==
    /\ Len(SplitDot(name)) = 2
    /\ SplitDot(name)[1] # <<>>
    /\ SplitDot(name)[2] # <<>>

\* The rules of the ingestion inputs a context violates by what it holds
\* (its present values are strings).
ViolatedRules(ctx) ==
    { r \in { "source_file", "target_table", "format" } :
        \/ r = "source_file" /\ "source_file" \notin DOMAIN ctx
        \/ r = "target_table" /\ "target_table" \notin DOMAIN ctx
        \/ r = "format" /\ "target_table" \in DOMAIN ctx
              /\ ~TwoPart(ctx["target_table"].str) }

StringValued(ctx) == \A k \in DOMAIN ctx : ctx[k] # None

\* C23: an ingestion context that lacks source_file or target_table, or
\* whose target_table is not a two-part 'schema.table' name (no dot, more
\* than one dot, an empty schema or table part), fails validate_inputs:
\* execute() returns Failed with one error string per violated rule (and one
\* more when the source file does not exist), and _execute, which makes the
\* insertions and the checkpoint writes, is never called.
C23_MalformedTargetRejected ==
    (/\ agent_kind = "ingestion"
     /\ pc = "returned"
     /\ StringValued(context)
     /\ ViolatedRules(context) # {})
        => /\ ~validation.raised
           /\ ~validation.value.is_valid
           /\ result.status = FAILED
           /\ result.errors = validation.value.errors
           /\ Len(result.errors) - Cardinality(ViolatedRules(context)) \in {0, 1}
           /\ core_calls = 0

-----------------------------------------------------------------------------
(* Properties of the checkpointed batch ingestor, continued *)

\* The call in progress is past the count of the source: in its chunk loop,
\* building its summary or about to return.
PastCount == i_pc \in { "read", "connect", "insert", "save", "write", "summary", "done" }

\* The call in progress found a checkpoint document when it began.
ResumedFromCheckpoint ==
    /\ i_agent = "roles"
    /\ CheckpointConfigured
    /\ h_ck_start \notin { None, EmptyFile }

\* C24: a call of the agent of agents/roles that resumes from a checkpoint
\* whose last_row is equal to or greater than total_rows is a no-op: the
\* destination table stays as the call found it, rows_ingested and
\* rows_failed stay 0 and are reported as 0 in the summary, and when the call
\* has ended the checkpoint file holds the value the call found.
C24_ResumePastEndIsNoOp ==
    (/\ PastCount
     /\ ResumedFromCheckpoint
     /\ h_ck_start["last_row"] >= total_rows)
    => /\ destination = h_dest_start
       /\ rows_ingested = 0
       /\ rows_failed = 0
       /\ start_row = h_ck_start["last_row"]
       /\ i_pc = "done" => checkpoint = h_ck_start
       /\ (i_pc = "done" /\ is_success(i_result))
             => /\ i_result.output["rows_ingested"] = 0
                /\ i_result.output["rows_failed"] = 0

-----------------------------------------------------------------------------
(* Properties of BaseAgent.reset *)

\* C25: reset() on an agent in any status (Idle, Running, Success, Failed,
\* Paused) and with any history sets status to Idle and leaves
\* execution_history empty, and changes nothing else of the agent: name,
\* description, tools and config are what they were.
C25_ResetFrame ==
    [][ /\ status' = IDLE
        /\ execution_history' = <<>>
        /\ agent_fields' = agent_fields
        /\ agent_kind' = agent_kind ]_vars

\* reset() was called on a Paused agent with two results in its history.
C25_Witness ==
    /\ h_reset = [status |-> PAUSED, calls |-> 2]
    /\ status = IDLE
    /\ execution_history = <<>>
    /\ agent_fields.name = "DataIngestionAgent"

\* C26: the success_rate of the summary an ingestion returns is
\* rows_ingested / total_rows when total_rows > 0 and 0 otherwise, so it is
\* a quotient with a divisor other than 0 for every source; a source without
\* a header line, whose row count comes out as -1, ends in a fault of the
\* reader that is no division fault and yields no summary.
C26_SuccessRate ==
    /\ (i_pc = "done" /\ is_success(i_result)) =>
          /\ i_result.output["total_rows"] = total_rows
          /\ i_result.output["rows_ingested"] = rows_ingested
          /\ i_result.output["success_rate"] =
                (IF total_rows > 0 THEN << rows_ingested, total_rows >> ELSE Zero)
          /\ i_result.output["success_rate"][2] # 0
    /\ (i_pc = "done" /\ total_rows < 0) =>
          /\ ~is_success(i_result)
          /\ h_fault = "No columns to parse from file"
    /\ h_fault # "division by zero"

\* A call on the source that holds its header only: total_rows = 0 and the
\* summary reports success_rate 0.
C26_Witness ==
    /\ i_pc = "done"
    /\ is_success(i_result)
    /\ i_context["source_file"] = Str(EmptyPath)
    /\ total_rows = 0
    /\ i_result.output["success_rate"] = Zero

\* C27: in an ingestion run every chunk read is counted exactly once, in
\* rows_ingested when its insertion succeeded and in rows_failed otherwise,
\* also when the fault arises in the checkpoint write after a successful
\* insertion: rows_ingested + rows_failed never exceeds the number of rows
\* read, rows_failed is the number of rows of the chunks whose insertion
\* faulted, and rows_ingested is the number of rows the run committed.
C27_ChunkCountedOnce ==
    /\ rows_ingested + rows_failed <= i_consumed
    /\ rows_ingested = RowsOf(h_chunks, TRUE)
    /\ rows_failed = RowsOf(h_chunks, FALSE)

-----------------------------------------------------------------------------
(* Properties of the execute() of agents/examples *)

\* C28: the BaseAgent.execute of agents/examples agrees with the core
\* BaseAgent.execute on status: after a call that ended in a validation
\* failure, in a fault raised in _execute or in a normal return, the status
\* of the returned result and the agent's status field are the same value
\* (Failed, Failed, Success) for the agents of both implementations, and
\* the status field is never left Running.
C28_ExampleExecuteAgrees ==
    \A t \in InvokedTasks :
        /\ crew_agent_status[k_crew][t] = k_results[t].status
        /\ crew_agent_status[k_crew][t] \in { FAILED, SUCCESS }

-----------------------------------------------------------------------------
(* Properties of WorkflowOrchestrator.execute_workflow, continued *)

\* C29: the summary returned by every call of execute_workflow, a second or
\* later call on the same orchestrator included, describes that call only:
\* crews_executed is at most 3, crew_results lists the crews run in that
\* call, in order, and crews_executed = crews_succeeded + crews_failed =
\* the length of crew_results.
C29_SummaryOfThisCall ==
    o_pc = "done" =>
        /\ o_summary.crews_executed <= 3
        /\ o_summary.crews_executed = Len(o_invoked)
        /\ Len(o_summary.crew_results) = Len(o_invoked)
        /\ \A i \in DOMAIN o_invoked :
              /\ i \in DOMAIN o_summary.crew_results
              /\ o_summary.crew_results[i].crew_name = o_invoked[i]
        /\ o_summary.crews_executed = o_summary.crews_succeeded + o_summary.crews_failed
        /\ o_summary.crews_executed = Len(o_summary.crew_results)

-----------------------------------------------------------------------------
(* Properties of WorkflowOrchestrator.ingest_sample_data *)

\* C30: ingest_sample_data returns the overall status 'success' only if the
\* crew report of every table it attempted has status 'success'.
C30_SuccessOnlyIfAllTablesSucceed ==
    (s_pc = "done" /\ s_report.status = "success")
        => \A t \in DOMAIN s_report.results : s_report.results[t].status = "success"

====
